---- MODULE Spec2Model ----
(***************************************************************************)
(* LiveFitTrack: the fitness-tracking client.  Two controllers live in the *)
(* repository:                                                             *)
(*   variant "A"  src/src/app/app.component.ts  (AppComponent on top of    *)
(*                the AuthService facade, same file from line 333)         *)
(*   variant "B"  src/unnamed/part_000          (AppComponent calling the  *)
(*                session provider and the document store directly)        *)
(* Both run against the same two external services, modelled here as the   *)
(* session provider (accounts, current user, session stream) and the       *)
(* document store (users, users/{id}/workouts, users/{id}/locations).      *)
(* Every `await` of a call to an external service is two steps: the        *)
(* service serves the call (Serve...), later the continuation of the       *)
(* async method runs (the controller actions).                             *)
(***************************************************************************)
EXTENDS Integers, Sequences, FiniteSets, TLC

\* ------------------------------------------------------------------ bounds
MaxTasks == 3      \* async method invocations in flight at once
MaxOps   == 2      \* user-initiated actions in one run
MaxClock == 1      \* last value of the wall clock
MaxDocs  == 3      \* document ids the store can assign

\* ------------------------------------------------------------- value sets
UIDs      == {"u1", "u2"}
NoUid     == "none"                      \* auth.currentUser === null
Null      == [null |-> TRUE]             \* a null record-valued signal
Undef     == "undefined"                 \* a missing document field
UndefTs   == [undefined |-> TRUE]        \* a missing timestamp field
Email(u)  == IF u = "u1" THEN "ana@x.com" ELSE "bo2@x.com"
Emails    == {Email(u) : u \in UIDs}
UidOf(e)  == CHOOSE u \in UIDs : Email(u) = e
Passwords == {"secret1", "abc"}
PwLen(p)  == IF p = "secret1" THEN 7 ELSE 3
Names     == {"Ana", " Bo "}
Slots     == 1..MaxTasks
NoArgs    == [none |-> TRUE]
Idle      == [op |-> "idle", pc |-> "", call |-> "", st |-> "", x |-> NoArgs,
              res |-> 0]
StoreErr  == "unavailable"
NetErr    == "auth/network-request-failed"
Forms     == {[name |-> "Run", type |-> "Cardio", duration |-> 30, notes |-> ""]}
EmptyForm == [name |-> "", type |-> "", duration |-> 0, notes |-> ""]
Fixes     == {[latitude |-> 52, longitude |-> 13, accuracy |-> 5]}

\* ---------------------------------------------------------------- state
VARIABLES
  variant,        \* which of the two controllers runs: "A" or "B"
  \* session provider
  registered,     \* uids that have an account
  password,       \* uid -> password of the account
  displayName,    \* uid -> display name of the identity profile (or Undef)
  currentUser,    \* auth.currentUser: a uid or NoUid
  stream,         \* emissions of user$ not yet delivered to the subscriber
  \* document store
  userDocs,       \* uid -> users/{uid} document or Null
  wStore,         \* uid -> set of documents of users/{uid}/workouts
  lStore,         \* uid -> set of documents of users/{uid}/locations
  nextId,         \* next document id the store assigns
  \* environment
  now,            \* wall clock, milliseconds
  ops,            \* user-initiated actions so far
  tasks,          \* slot -> async method invocation in flight (or Idle)
  \* controller (AppComponent)
  loginEmail, loginPassword,
  registerUsername, registerEmail, registerPassword,
  loginError, registerError, registerSuccess,
  workouts, savedLocations, newWorkout,
  currentLocation, locationLoading, locationError,
  userData,       \* variant A: signal<User|null>
  userProfile,    \* variant B: signal<UserProfile|null>
  editUsername, profileUpdateError, profileUpdateSuccess,
  isPremium, showUpgradeModal, paymentProcessing,
  activeSection,
  \* history
  escaped,        \* an exception left a controller method uncaught
  ever,           \* uid -> the documents its two collections ever received
  gone,           \* ids whose delete action ended with all its calls served
  loadFailed      \* a call of the latest sign-in's handler has failed

provider == <<registered, password, displayName, currentUser, stream>>
store    == <<userDocs, wStore, lStore, nextId, ever>>
hist     == <<escaped, gone, loadFailed>>
forms    == <<loginEmail, loginPassword, registerUsername, registerEmail,
              registerPassword>>
messages == <<loginError, registerError, registerSuccess, locationError,
              profileUpdateError, profileUpdateSuccess>>
lists    == <<workouts, savedLocations>>
profile  == <<userData, userProfile, editUsername>>
misc     == <<newWorkout, currentLocation, locationLoading, isPremium,
              showUpgradeModal, paymentProcessing, activeSection>>
loginForm == <<loginEmail, loginPassword>>
regForm   == <<registerUsername, registerEmail, registerPassword>>
regMsgs   == <<registerError, registerSuccess>>
profMsgs  == <<profileUpdateError, profileUpdateSuccess>>
premium   == <<isPremium, showUpgradeModal, paymentProcessing>>
ctrl     == <<forms, messages, lists, profile, misc>>
vars     == <<variant, provider, store, now, ops, tasks, ctrl, hist>>

\* ------------------------------------------------------------- timestamps
\* Firestore stores a Date as a Timestamp {seconds, nanoseconds}.
TsOf(d)    == [seconds |-> d \div 1000, nanoseconds |-> (d % 1000) * 1000000]
ToDate(ts) == ts.seconds * 1000 + ts.nanoseconds \div 1000000
TsLess(a, b) ==
  \/ a.seconds < b.seconds
  \/ a.seconds = b.seconds /\ a.nanoseconds < b.nanoseconds

\* --------------------------------------------------------- document store
\* query(collection, orderBy(field, 'desc')): documents by descending field,
\* ties by descending document name.
After(field, a, b) ==
  \/ TsLess(b[field], a[field])
  \/ a[field] = b[field] /\ a.docId > b.docId

RECURSIVE OrderByDesc(_, _)
OrderByDesc(S, field) ==
  IF S = {} THEN <<>>
  ELSE LET m == CHOOSE x \in S : \A y \in S \ {x} : After(field, x, y)
       IN  <<m>> \o OrderByDesc(S \ {m}, field)

Range(s) == {s[i] : i \in DOMAIN s}

FreeSlot(i) == tasks[i].op = "idle" /\ \A j \in Slots : j < i => tasks[j].op # "idle"
Task(op, pc, call, x) ==
  [op |-> op, pc |-> pc, call |-> call, st |-> "sent", x |-> x, res |-> 0]
Sent(i, call) == tasks[i].call = call /\ tasks[i].st = "sent"
At(i, op, pc) == tasks[i].op = op /\ tasks[i].pc = pc /\ tasks[i].st # "sent"
HandlerOps == {"authState", "loadUserProfile"}
Reply(i, st, res) ==
  /\ tasks' = [tasks EXCEPT ![i].st = st, ![i].res = res]
  /\ loadFailed' = (loadFailed \/ (st = "err" /\ tasks[i].op \in HandlerOps))
\* a delete action ends with each of its calls served without failure: its
\* record counts as deleted from then on
Gone(i) ==
  gone' = IF /\ tasks[i].op \in {"deleteWorkout", "deleteLocation"}
             /\ tasks'[i].op = "idle"
             /\ tasks[i].st = "ok"
          THEN gone \cup {tasks[i].x.docId} ELSE gone
Finish(i) == tasks' = [tasks EXCEPT ![i] = Idle]
Goto(i, pc, call, x) ==
  tasks' = [tasks EXCEPT ![i] = Task(tasks[i].op, pc, call, x)]
Start(i, op, pc, call, x) ==
  tasks' = [tasks EXCEPT ![i] = Task(op, pc, call, x)]

\* ------------------------------------------------------ session provider
\* signInWithEmailAndPassword
ServeSignIn(i) ==
  /\ Sent(i, "signIn")
  /\ LET e == tasks[i].x.email
         p == tasks[i].x.password
         u == UidOf(e)
     IN \/ /\ Reply(i, "err", NetErr)
           /\ UNCHANGED provider
        \/ /\ u \notin registered
           /\ Reply(i, "err", "auth/user-not-found")
           /\ UNCHANGED provider
        \/ /\ u \in registered /\ password[u] # p
           /\ Reply(i, "err", "auth/wrong-password")
           /\ UNCHANGED provider
        \/ /\ u \in registered /\ password[u] = p
           /\ Reply(i, "ok", u)
           /\ currentUser' = u
           /\ stream' = Append(stream, u)
           /\ UNCHANGED <<registered, password, displayName>>
  /\ UNCHANGED <<store, now, ops, ctrl, escaped, gone, variant>>

\* createUserWithEmailAndPassword: creates the account and signs it in
ServeCreateUser(i) ==
  /\ Sent(i, "createUser")
  /\ LET e == tasks[i].x.email
         p == tasks[i].x.password
         u == UidOf(e)
     IN \/ /\ Reply(i, "err", NetErr)
           /\ UNCHANGED provider
        \/ /\ u \in registered
           /\ Reply(i, "err", "auth/email-already-in-use")
           /\ UNCHANGED provider
        \/ /\ u \notin registered /\ PwLen(p) < 6
           /\ Reply(i, "err", "auth/weak-password")
           /\ UNCHANGED provider
        \/ /\ u \notin registered /\ PwLen(p) >= 6
           /\ Reply(i, "ok", u)
           /\ registered' = registered \cup {u}
           /\ password' = [password EXCEPT ![u] = p]
           /\ displayName' = [displayName EXCEPT ![u] = Undef]
           /\ currentUser' = u
           /\ stream' = Append(stream, u)
  /\ UNCHANGED <<store, now, ops, ctrl, escaped, gone, variant>>

\* updateProfile(user, {displayName})
ServeUpdateProfile(i) ==
  /\ Sent(i, "updateProfile")
  /\ \/ /\ Reply(i, "err", NetErr)
        /\ UNCHANGED provider
     \/ /\ Reply(i, "ok", 0)
        /\ displayName' = [displayName EXCEPT ![tasks[i].x.target] = tasks[i].x.displayName]
        /\ UNCHANGED <<registered, password, currentUser, stream>>
  /\ UNCHANGED <<store, now, ops, ctrl, escaped, gone, variant>>

\* signOut(auth)
ServeSignOut(i) ==
  /\ Sent(i, "signOut")
  /\ \/ /\ Reply(i, "err", NetErr)
        /\ UNCHANGED provider
     \/ /\ Reply(i, "ok", 0)
        /\ currentUser' = NoUid
        /\ stream' = Append(stream, NoUid)
        /\ UNCHANGED <<registered, password, displayName>>
  /\ UNCHANGED <<store, now, ops, ctrl, escaped, gone, variant>>

\* --------------------------------------------------------- document store
\* getDoc(users/{u})
ServeGetDoc(i) ==
  /\ Sent(i, "getDoc")
  /\ \/ Reply(i, "err", StoreErr)
     \/ Reply(i, "ok", userDocs[tasks[i].x.uid])
  /\ UNCHANGED <<provider, store, now, ops, ctrl, escaped, gone, variant>>

\* getDocs(collection(users)): the whole collection (the caller drops it)
ServeGetUsers(i) ==
  /\ Sent(i, "getUsers")
  /\ \/ Reply(i, "err", StoreErr)
     \/ Reply(i, "ok", {userDocs[u] : u \in {v \in UIDs : userDocs[v] # Null}})
  /\ UNCHANGED <<provider, store, now, ops, ctrl, escaped, gone, variant>>

\* getDocs(query(collection(users), where('id', '==', uid)))
ServeQueryUser(i) ==
  /\ Sent(i, "queryUser")
  /\ \/ Reply(i, "err", StoreErr)
     \/ Reply(i, "ok", {userDocs[u] : u \in {v \in UIDs :
                          userDocs[v] # Null /\ userDocs[v].id = tasks[i].x.uid}})
  /\ UNCHANGED <<provider, store, now, ops, ctrl, escaped, gone, variant>>

\* setDoc(users/{u}, data): replaces the document
ServeSetDoc(i) ==
  /\ Sent(i, "setDoc")
  /\ \/ /\ Reply(i, "err", StoreErr)
        /\ UNCHANGED store
     \/ /\ Reply(i, "ok", 0)
        /\ userDocs' = [userDocs EXCEPT ![tasks[i].x.uid] = tasks[i].x.doc]
        /\ UNCHANGED <<wStore, lStore, nextId, ever>>
  /\ UNCHANGED <<provider, now, ops, ctrl, escaped, gone, variant>>

\* setDoc(users/{u}, data, {merge: true}): creates the document when missing
MergeDoc(old, upd) ==
  IF old = Null
  THEN [uid |-> Undef, email |-> Undef, username |-> upd.username,
        displayName |-> upd.displayName, createdAt |-> UndefTs]
  ELSE [old EXCEPT !.username = upd.username, !.displayName = upd.displayName]

ServeSetDocMerge(i) ==
  /\ Sent(i, "setDocMerge")
  /\ \/ /\ Reply(i, "err", StoreErr)
        /\ UNCHANGED store
     \/ /\ Reply(i, "ok", 0)
        /\ userDocs' = [userDocs EXCEPT ![tasks[i].x.uid] =
                                          MergeDoc(@, tasks[i].x.doc)]
        /\ UNCHANGED <<wStore, lStore, nextId, ever>>
  /\ UNCHANGED <<provider, now, ops, ctrl, escaped, gone, variant>>

\* {...old, ...upd}: the fields of upd replace those of old
Spread(old, upd) ==
  [f \in DOMAIN old |-> IF f \in DOMAIN upd THEN upd[f] ELSE old[f]]

\* updateDoc(users/{u}, data): rejects with not-found when the document is
\* missing, else replaces the named fields
ServeUpdateDoc(i) ==
  /\ Sent(i, "updateDoc")
  /\ \/ /\ Reply(i, "err", StoreErr)
        /\ UNCHANGED store
     \/ /\ userDocs[tasks[i].x.uid] = Null
        /\ Reply(i, "err", "not-found")
        /\ UNCHANGED store
     \/ /\ userDocs[tasks[i].x.uid] # Null
        /\ Reply(i, "ok", 0)
        /\ userDocs' = [userDocs EXCEPT ![tasks[i].x.uid] =
                                          Spread(@, tasks[i].x.doc)]
        /\ UNCHANGED <<wStore, lStore, nextId, ever>>
  /\ UNCHANGED <<provider, now, ops, ctrl, escaped, gone, variant>>

\* a store that ignores the direction of orderBy and answers oldest first
Reverse(s) == [k \in DOMAIN s |-> s[Len(s) + 1 - k]]
ServeQuery_Ascending(i) ==
  /\ \/ Sent(i, "queryW") \/ Sent(i, "queryL")
  /\ \/ Reply(i, "err", StoreErr)
     \/ /\ Sent(i, "queryW")
        /\ Reply(i, "ok", Reverse(OrderByDesc(wStore[tasks[i].x.uid], "date")))
     \/ /\ Sent(i, "queryL")
        /\ Reply(i, "ok", Reverse(OrderByDesc(lStore[tasks[i].x.uid], "savedAt")))
  /\ UNCHANGED <<provider, store, now, ops, ctrl, escaped, gone, variant>>

\* getDocs(query(users/{u}/workouts, orderBy('date','desc'))) and the same
\* for locations by 'savedAt'
ServeQuery(i) ==
  /\ \/ Sent(i, "queryW") \/ Sent(i, "queryL")
  /\ \/ Reply(i, "err", StoreErr)
     \/ /\ Sent(i, "queryW")
        /\ Reply(i, "ok", OrderByDesc(wStore[tasks[i].x.uid], "date"))
     \/ /\ Sent(i, "queryL")
        /\ Reply(i, "ok", OrderByDesc(lStore[tasks[i].x.uid], "savedAt"))
  /\ UNCHANGED <<provider, store, now, ops, ctrl, escaped, gone, variant>>

\* a store whose addDoc writes every record under one fixed name: the new
\* record replaces what the collection held
ServeAddDoc_Replacing(i) ==
  /\ \/ Sent(i, "addW") \/ Sent(i, "addL")
  /\ \/ /\ Reply(i, "err", StoreErr)
        /\ UNCHANGED store
     \/ /\ nextId <= MaxDocs
        /\ Reply(i, "ok", nextId)
        /\ nextId' = nextId + 1
        /\ LET u == tasks[i].x.uid
               d == [tasks[i].x.data EXCEPT !.docId = nextId]
           IN IF tasks[i].call = "addW"
              THEN /\ wStore' = [wStore EXCEPT ![u] = {d}]
                   /\ ever' = [ever EXCEPT ![u].w = @ \cup {d}]
                   /\ UNCHANGED lStore
              ELSE /\ lStore' = [lStore EXCEPT ![u] = {d}]
                   /\ ever' = [ever EXCEPT ![u].l = @ \cup {d}]
                   /\ UNCHANGED wStore
        /\ UNCHANGED userDocs
  /\ UNCHANGED <<provider, now, ops, ctrl, escaped, gone, variant>>

\* addDoc(collection, data): the store assigns the document id
ServeAddDoc(i) ==
  /\ \/ Sent(i, "addW") \/ Sent(i, "addL")
  /\ \/ /\ Reply(i, "err", StoreErr)
        /\ UNCHANGED store
     \/ /\ nextId <= MaxDocs
        /\ Reply(i, "ok", nextId)
        /\ nextId' = nextId + 1
        /\ LET u == tasks[i].x.uid
               d == [tasks[i].x.data EXCEPT !.docId = nextId]
           IN IF tasks[i].call = "addW"
              THEN /\ wStore' = [wStore EXCEPT ![u] = @ \cup {d}]
                   /\ ever' = [ever EXCEPT ![u].w = @ \cup {d}]
                   /\ UNCHANGED lStore
              ELSE /\ lStore' = [lStore EXCEPT ![u] = @ \cup {d}]
                   /\ ever' = [ever EXCEPT ![u].l = @ \cup {d}]
                   /\ UNCHANGED wStore
        /\ UNCHANGED userDocs
  /\ UNCHANGED <<provider, now, ops, ctrl, escaped, gone, variant>>

\* how many documents of the collection a deleteDoc of the task removes
Removes(i) ==
  LET c == IF tasks[i].call = "delW" THEN wStore[tasks[i].x.uid]
                                     ELSE lStore[tasks[i].x.uid]
  IN Cardinality({d \in c : d.docId = tasks[i].x.docId})

\* a store in which deleting a name that is absent empties both collections
\* of the user
ServeDeleteDoc_Clearing(i) ==
  /\ \/ Sent(i, "delW") \/ Sent(i, "delL")
  /\ \/ /\ Reply(i, "err", StoreErr)
        /\ UNCHANGED store
     \/ /\ Reply(i, "ok", Removes(i))
        /\ LET u  == tasks[i].x.uid
               id == tasks[i].x.docId
           IN IF Removes(i) = 0
              THEN /\ wStore' = [wStore EXCEPT ![u] = {}]
                   /\ lStore' = [lStore EXCEPT ![u] = {}]
              ELSE IF tasks[i].call = "delW"
              THEN /\ wStore' = [wStore EXCEPT ![u] = {d \in @ : d.docId # id}]
                   /\ UNCHANGED lStore
              ELSE /\ lStore' = [lStore EXCEPT ![u] = {d \in @ : d.docId # id}]
                   /\ UNCHANGED wStore
        /\ UNCHANGED <<userDocs, nextId, ever>>
  /\ UNCHANGED <<provider, now, ops, ctrl, escaped, gone, variant>>

\* deleteDoc(users/{u}/workouts/{id}): succeeds also when the id is absent.
\* The promise resolves to nothing; the reply keeps, for the properties, how
\* many documents went.
ServeDeleteDoc(i) ==
  /\ \/ Sent(i, "delW") \/ Sent(i, "delL")
  /\ \/ /\ Reply(i, "err", StoreErr)
        /\ UNCHANGED store
     \/ /\ Reply(i, "ok", Removes(i))
        /\ LET u  == tasks[i].x.uid
               id == tasks[i].x.docId
           IN IF tasks[i].call = "delW"
              THEN /\ wStore' = [wStore EXCEPT ![u] = {d \in @ : d.docId # id}]
                   /\ UNCHANGED lStore
              ELSE /\ lStore' = [lStore EXCEPT ![u] = {d \in @ : d.docId # id}]
                   /\ UNCHANGED wStore
        /\ UNCHANGED <<userDocs, nextId, ever>>
  /\ UNCHANGED <<provider, now, ops, ctrl, escaped, gone, variant>>

\* navigator.geolocation.getCurrentPosition: a position, or one of the three
\* error codes; TIMEOUT only when the request carries a timeout
PERMISSION_DENIED    == 1
POSITION_UNAVAILABLE == 2
TIMEOUT              == 3
NoTimeout            == 0
ServeGeo(i) ==
  /\ Sent(i, "geo")
  /\ \/ \E f \in Fixes :
          Reply(i, "ok", [latitude |-> f.latitude, longitude |-> f.longitude,
                          accuracy |-> f.accuracy, timestamp |-> now])
     \/ \E c \in {PERMISSION_DENIED, POSITION_UNAVAILABLE, TIMEOUT} :
          /\ c = TIMEOUT => tasks[i].x.timeout # NoTimeout
          /\ Reply(i, "err", c)
  /\ UNCHANGED <<provider, store, now, ops, ctrl, escaped, gone, variant>>

\* the timer of a request that carries a timeout runs out before the device
\* has answered
GeoTimeoutElapsed(i) ==
  /\ Sent(i, "geo")
  /\ tasks[i].x.timeout # NoTimeout
  /\ Reply(i, "err", TIMEOUT)
  /\ UNCHANGED <<provider, store, now, ops, ctrl, escaped, gone, variant>>

\* error.message of the SDK's errors
ErrMessage(code) ==
  IF code = StoreErr THEN "Firebase: Error (unavailable)."
                     ELSE "Firebase: Error (auth/network-request-failed)."

\* the wall clock moves on
Tick ==
  /\ now < MaxClock
  /\ now' = now + 1
  /\ UNCHANGED <<provider, store, ops, tasks, ctrl, hist, variant>>

\* ======================================================================
\* Variant A: src/src/app/app.component.ts (AppComponent + AuthService)
\* ======================================================================
getAuthErrorMessage_A(code) ==
  CASE code = "auth/invalid-email"          -> "Invalid email address."
    [] code = "auth/user-disabled"          -> "This account has been disabled."
    [] code = "auth/user-not-found"         -> "No account found with this email."
    [] code = "auth/wrong-password"         -> "Incorrect password."
    [] code = "auth/email-already-in-use"   -> "An account with this email already exists."
    [] code = "auth/weak-password"          -> "Password should be at least 6 characters."
    [] code = "auth/network-request-failed" -> "Network error. Please check your connection."
    [] OTHER                                -> "An error occurred. Please try again."

\* AuthService.getUserData: the document as a User, or null
ConvTs(ts) == IF ts = UndefTs THEN UndefTs ELSE [date |-> ToDate(ts)]
getUserData(doc) ==
  IF doc = Null THEN Null
  ELSE [uid |-> doc.uid, email |-> doc.email, username |-> doc.username,
        displayName |-> doc.displayName, createdAt |-> ConvTs(doc.createdAt)]

\* !user?.uid
HasUid(user) == user # Null /\ user.uid # Undef
\* userData?.username || ''
UsernameOrEmpty(user) ==
  IF user = Null \/ user.username = Undef THEN "" ELSE user.username

\* AuthService.loadWorkouts: {id: doc.id, ...data, date: toDate(date)}
Workout_A(d) ==
  [id |-> d.docId, name |-> d.name, type |-> d.type, duration |-> d.duration,
   notes |-> d.notes, date |-> ToDate(d.date)]
loadWorkouts_A(docs) == [k \in DOMAIN docs |-> Workout_A(docs[k])]

\* AuthService.loadLocations: {id: doc.id, ...data, timestamp, savedAt}; the
\* spread of data comes after id, so a stored id field wins over doc.id
NoField == -1
EmptyId == 0
Location_A(d) ==
  [id |-> IF d.id # NoField THEN d.id ELSE d.docId,
   latitude |-> d.latitude, longitude |-> d.longitude, accuracy |-> d.accuracy,
   timestamp |-> ToDate(d.timestamp), savedAt |-> ToDate(d.savedAt)]
loadLocations_A(docs) == [k \in DOMAIN docs |-> Location_A(docs[k])]

\* the ids of the records a list shows (the delete buttons of the view)
Shown(list) == {list[k].id : k \in DOMAIN list}

CanStart == ops < MaxOps /\ \E i \in Slots : FreeSlot(i)

\* ---- constructor: the subscription to user$
AuthStateSignedOut_A ==
  /\ variant = "A"
  /\ stream # <<>> /\ Head(stream) = NoUid
  /\ stream' = Tail(stream)
  /\ workouts' = <<>>
  /\ savedLocations' = <<>>
  /\ userData' = Null
  /\ UNCHANGED <<registered, password, displayName, currentUser, store, now,
                 ops, tasks, forms, messages, userProfile, editUsername, misc,
                 hist, variant>>

AuthStateSignedIn_A ==
  /\ variant = "A"
  /\ stream # <<>> /\ Head(stream) # NoUid
  /\ stream' = Tail(stream)
  /\ \E i \in Slots :
       /\ FreeSlot(i)
       /\ Start(i, "authState", "getUserData", "getDoc", [uid |-> Head(stream)])
  /\ UNCHANGED <<registered, password, displayName, currentUser, store, now,
                 ops, ctrl, escaped, gone, variant>>
  /\ loadFailed' = FALSE

\* the handler after `await getUserData`, then loadUserData():
\* Promise.all([loadWorkouts(), loadLocations()])
AuthStateGotUser_A(i) ==
  /\ variant = "A"
  /\ At(i, "authState", "getUserData")
  /\ LET ud == IF tasks[i].st = "ok" THEN getUserData(tasks[i].res) ELSE userData
     IN /\ userData' = ud
        /\ editUsername' = IF tasks[i].st = "ok" THEN UsernameOrEmpty(ud)
                                                  ELSE editUsername
        /\ IF HasUid(ud)
           THEN \E j \in Slots \ {i} :
                  /\ tasks[j].op = "idle"
                  /\ \A k \in Slots \ {i} : k < j => tasks[k].op # "idle"
                  /\ tasks' = [tasks EXCEPT
                       ![i] = Task("authState", "loadWorkouts", "queryW",
                                   [uid |-> ud.uid]),
                       ![j] = Task("authState", "loadLocations", "queryL",
                                   [uid |-> ud.uid])]
           ELSE Finish(i)
  /\ UNCHANGED <<provider, store, now, ops, forms, messages, lists,
                 userProfile, misc, hist, variant>>

\* loadWorkouts() after its await, whoever called it
LoadWorkoutsDone_A(i) ==
  /\ variant = "A"
  /\ tasks[i].pc = "loadWorkouts" /\ tasks[i].st # "sent"
  /\ tasks[i].op \in {"authState", "addWorkout", "deleteWorkout"}
  /\ workouts' = IF tasks[i].st = "ok" THEN loadWorkouts_A(tasks[i].res)
                                        ELSE workouts
  /\ Finish(i)
  /\ UNCHANGED <<provider, store, now, ops, forms, messages, savedLocations,
                 profile, misc, escaped, loadFailed, variant>>
  /\ Gone(i)

LoadLocationsDone_A(i) ==
  /\ variant = "A"
  /\ tasks[i].pc = "loadLocations" /\ tasks[i].st # "sent"
  /\ tasks[i].op \in {"authState", "saveLocation", "deleteLocation"}
  /\ savedLocations' = IF tasks[i].st = "ok" THEN loadLocations_A(tasks[i].res)
                                              ELSE savedLocations
  /\ Finish(i)
  /\ UNCHANGED <<provider, store, now, ops, forms, messages, workouts,
                 profile, misc, escaped, loadFailed, variant>>
  /\ Gone(i)

\* ---- onLogin
onLogin_A(e, p) ==
  /\ variant = "A"
  /\ CanStart
  /\ ops' = ops + 1
  /\ loginEmail' = e /\ loginPassword' = p
  /\ loginError' = ""
  /\ \E i \in Slots :
       /\ FreeSlot(i)
       /\ Start(i, "onLogin", "login", "signIn", [email |-> e, password |-> p])
  /\ UNCHANGED <<provider, store, now, registerUsername, registerEmail,
                 registerPassword, registerError, registerSuccess,
                 locationError, profileUpdateError, profileUpdateSuccess,
                 lists, profile, misc, hist, variant>>

onLoginDone_A(i) ==
  /\ variant = "A"
  /\ At(i, "onLogin", "login")
  /\ IF tasks[i].st = "ok"
     THEN loginEmail' = "" /\ loginPassword' = "" /\ UNCHANGED loginError
     ELSE /\ loginError' = getAuthErrorMessage_A(tasks[i].res)
          /\ UNCHANGED <<loginEmail, loginPassword>>
  /\ Finish(i)
  /\ UNCHANGED <<provider, store, now, ops, registerUsername, registerEmail,
                 registerPassword, registerError, registerSuccess,
                 locationError, profileUpdateError, profileUpdateSuccess,
                 lists, profile, misc, hist, variant>>

\* ---- onRegister -> AuthService.register
onRegister_A(e, p, n) ==
  /\ variant = "A"
  /\ CanStart
  /\ ops' = ops + 1
  /\ registerEmail' = e /\ registerPassword' = p /\ registerUsername' = n
  /\ registerError' = "" /\ registerSuccess' = ""
  /\ \E i \in Slots :
       /\ FreeSlot(i)
       /\ Start(i, "onRegister", "createUser", "createUser",
                [email |-> e, password |-> p, username |-> n])
  /\ UNCHANGED <<provider, store, now, loginForm, loginError, locationError,
                 profMsgs, lists, profile, misc, hist, variant>>

\* register after createUserWithEmailAndPassword: updateProfile(user, ...)
onRegisterCreated_A(i) ==
  /\ variant = "A"
  /\ At(i, "onRegister", "createUser") /\ tasks[i].st = "ok"
  /\ Goto(i, "updateProfile", "updateProfile",
          [target |-> tasks[i].res, displayName |-> tasks[i].x.username,
           email |-> tasks[i].x.email, username |-> tasks[i].x.username,
           password |-> tasks[i].x.password])
  /\ UNCHANGED <<provider, store, now, ops, ctrl, hist, variant>>

\* register after updateProfile: setDoc(users/{uid}, {..., createdAt: new Date()})
onRegisterNamed_A(i) ==
  /\ variant = "A"
  /\ At(i, "onRegister", "updateProfile") /\ tasks[i].st = "ok"
  /\ Goto(i, "setDoc", "setDoc",
          [uid |-> tasks[i].x.target,
           doc |-> [uid |-> tasks[i].x.target, email |-> tasks[i].x.email,
                    username |-> tasks[i].x.username,
                    displayName |-> tasks[i].x.username,
                    createdAt |-> TsOf(now)],
           form |-> [username |-> tasks[i].x.username,
                     password |-> tasks[i].x.password]])
  /\ UNCHANGED <<provider, store, now, ops, ctrl, hist, variant>>

\* onRegister after register() returned
onRegisterDone_A(i) ==
  /\ variant = "A"
  /\ At(i, "onRegister", "setDoc") /\ tasks[i].st = "ok"
  /\ registerSuccess' = "Account created successfully! You can now login."
  /\ registerUsername' = "" /\ registerEmail' = "" /\ registerPassword' = ""
  /\ Finish(i)
  /\ UNCHANGED <<provider, store, now, ops, loginForm, loginError,
                 registerError, locationError, profMsgs, lists, profile, misc,
                 hist, variant>>

\* onRegister's catch: any of the three calls of register() threw
onRegisterFailed_A(i) ==
  /\ variant = "A"
  /\ tasks[i].op = "onRegister" /\ tasks[i].st = "err"
  /\ registerError' = getAuthErrorMessage_A(tasks[i].res)
  /\ Finish(i)
  /\ UNCHANGED <<provider, store, now, ops, forms, loginError,
                 registerSuccess, locationError, profMsgs, lists, profile,
                 misc, hist, variant>>

\* ---- signOut -> AuthService.logout
\* the view shows another section: activeSection is a public signal
Sections == {"dashboard", "profile"}
showSection(sec) ==
  /\ activeSection # sec
  /\ activeSection' = sec
  /\ UNCHANGED <<provider, store, now, ops, tasks, forms, messages, lists,
                 profile, newWorkout, currentLocation, locationLoading,
                 premium, hist, variant>>

\* a signOut that reports a failed logout in loginError
signOutDone_A_Surfacing(i) ==
  /\ variant = "A"
  /\ At(i, "signOut", "logout")
  /\ activeSection' = IF tasks[i].st = "ok" THEN "dashboard" ELSE activeSection
  /\ loginError' = IF tasks[i].st = "ok" THEN loginError
                   ELSE getAuthErrorMessage_A(tasks[i].res)
  /\ Finish(i)
  /\ UNCHANGED <<provider, store, now, ops, forms, registerError,
                 registerSuccess, locationError, profMsgs, lists, profile,
                 newWorkout, currentLocation, locationLoading, premium,
                 hist, variant>>

signOut_A ==
  /\ variant = "A"
  /\ CanStart
  /\ ops' = ops + 1
  /\ \E i \in Slots :
       /\ FreeSlot(i)
       /\ Start(i, "signOut", "logout", "signOut", NoArgs)
  /\ UNCHANGED <<provider, store, now, ctrl, hist, variant>>

signOutDone_A(i) ==
  /\ variant = "A"
  /\ At(i, "signOut", "logout")
  /\ activeSection' = IF tasks[i].st = "ok" THEN "dashboard" ELSE activeSection
  /\ Finish(i)
  /\ UNCHANGED <<provider, store, now, ops, forms, messages, lists, profile,
                 newWorkout, currentLocation, locationLoading, premium,
                 hist, variant>>

\* ---- workouts
\* the reload at the end of add/delete: loadWorkouts() reads userData again
ReloadWorkouts_A(i) ==
  IF HasUid(userData)
  THEN Goto(i, "loadWorkouts", "queryW",
            [uid |-> userData.uid, docId |-> tasks[i].x.docId,
             wrote |-> tasks[i].res])
  ELSE Finish(i)

addWorkout_A(form) ==
  /\ variant = "A"
  /\ CanStart
  /\ HasUid(userData)
  /\ ops' = ops + 1
  /\ newWorkout' = form
  /\ \E i \in Slots :
       /\ FreeSlot(i)
       /\ Start(i, "addWorkout", "add", "addW",
                [uid |-> userData.uid, docId |-> 0,
                 data |-> [docId |-> 0, name |-> form.name, type |-> form.type,
                           duration |-> form.duration, notes |-> form.notes,
                           date |-> TsOf(now)]])
  /\ UNCHANGED <<provider, store, now, forms, messages, lists, profile,
                 currentLocation, locationLoading, premium, activeSection,
                 hist, variant>>

addWorkoutAdded_A(i) ==
  /\ variant = "A"
  /\ At(i, "addWorkout", "add")
  /\ IF tasks[i].st = "ok"
     THEN /\ newWorkout' = EmptyForm
          /\ ReloadWorkouts_A(i)
     ELSE /\ UNCHANGED newWorkout
          /\ Finish(i)
  /\ UNCHANGED <<provider, store, now, ops, forms, messages, lists, profile,
                 currentLocation, locationLoading, premium, activeSection,
                 hist, variant>>

deleteWorkout_A(id) ==
  /\ variant = "A"
  /\ CanStart
  /\ HasUid(userData)
  /\ ops' = ops + 1
  /\ \E i \in Slots :
       /\ FreeSlot(i)
       /\ Start(i, "deleteWorkout", "delete", "delW",
                [uid |-> userData.uid, docId |-> id])
  /\ UNCHANGED <<provider, store, now, ctrl, hist, variant>>

deleteWorkoutDeleted_A(i) ==
  /\ variant = "A"
  /\ At(i, "deleteWorkout", "delete")
  /\ IF tasks[i].st = "ok" THEN ReloadWorkouts_A(i) ELSE Finish(i)
  /\ UNCHANGED <<provider, store, now, ops, ctrl, escaped, loadFailed, variant>>
  /\ Gone(i)

\* ---- locations
ReloadLocations_A(i) ==
  IF HasUid(userData)
  THEN Goto(i, "loadLocations", "queryL",
            [uid |-> userData.uid, docId |-> tasks[i].x.docId,
             wrote |-> tasks[i].res])
  ELSE Finish(i)

\* AuthService.saveLocation stores {...location, savedAt: new Date()}
saveLocation_A ==
  /\ variant = "A"
  /\ CanStart
  /\ HasUid(userData) /\ currentLocation # Null
  /\ ops' = ops + 1
  /\ \E i \in Slots :
       /\ FreeSlot(i)
       /\ Start(i, "saveLocation", "save", "addL",
                [uid |-> userData.uid, docId |-> 0, loc |-> currentLocation,
                 data |-> [docId |-> 0, id |-> currentLocation.id,
                           latitude |-> currentLocation.latitude,
                           longitude |-> currentLocation.longitude,
                           accuracy |-> currentLocation.accuracy,
                           timestamp |-> TsOf(currentLocation.timestamp),
                           savedAt |-> TsOf(now)]])
  /\ UNCHANGED <<provider, store, now, ctrl, hist, variant>>

saveLocationSaved_A(i) ==
  /\ variant = "A"
  /\ At(i, "saveLocation", "save")
  /\ IF tasks[i].st = "ok"
     THEN /\ currentLocation' = Null
          /\ ReloadLocations_A(i)
     ELSE /\ UNCHANGED currentLocation
          /\ Finish(i)
  /\ UNCHANGED <<provider, store, now, ops, forms, messages, lists, profile,
                 newWorkout, locationLoading, premium, activeSection, hist, variant>>

\* doc(firestore, 'users', uid, 'locations', '') throws (odd number of path
\* segments); the throw is caught and logged, no call reaches the store
deleteLocation_A(id) ==
  /\ variant = "A"
  /\ CanStart
  /\ HasUid(userData)
  /\ ops' = ops + 1
  /\ IF id = EmptyId
     THEN UNCHANGED tasks
     ELSE \E i \in Slots :
            /\ FreeSlot(i)
            /\ Start(i, "deleteLocation", "delete", "delL",
                     [uid |-> userData.uid, docId |-> id])
  /\ UNCHANGED <<provider, store, now, ctrl, hist, variant>>

deleteLocationDeleted_A(i) ==
  /\ variant = "A"
  /\ At(i, "deleteLocation", "delete")
  /\ IF tasks[i].st = "ok" THEN ReloadLocations_A(i) ELSE Finish(i)
  /\ UNCHANGED <<provider, store, now, ops, ctrl, escaped, loadFailed, variant>>
  /\ Gone(i)

\* getCurrentLocation: no options are passed, so no timeout
getLocationErrorMessage(code) ==
  CASE code = PERMISSION_DENIED ->
         "Location access denied. Please enable location permissions."
    [] code = POSITION_UNAVAILABLE -> "Location information unavailable."
    [] code = TIMEOUT -> "Location request timed out."
    [] OTHER -> "An unknown error occurred while getting location."

getCurrentLocation_A ==
  /\ variant = "A"
  /\ CanStart
  /\ ops' = ops + 1
  /\ locationLoading' = TRUE
  /\ locationError' = ""
  /\ \E i \in Slots :
       /\ FreeSlot(i)
       /\ Start(i, "getCurrentLocation", "position", "geo",
                [timeout |-> NoTimeout])
  /\ UNCHANGED <<provider, store, now, forms, loginError, regMsgs, profMsgs,
                 lists, profile, newWorkout, currentLocation, premium,
                 activeSection, hist, variant>>

\* the success and the error callback of getCurrentPosition
gotPosition_A(i) ==
  /\ variant = "A"
  /\ At(i, "getCurrentLocation", "position")
  /\ IF tasks[i].st = "ok"
     THEN /\ currentLocation' =
               [id |-> EmptyId, latitude |-> tasks[i].res.latitude,
                longitude |-> tasks[i].res.longitude,
                accuracy |-> tasks[i].res.accuracy,
                timestamp |-> tasks[i].res.timestamp, savedAt |-> now]
          /\ UNCHANGED locationError
     ELSE /\ locationError' = getLocationErrorMessage(tasks[i].res)
          /\ UNCHANGED currentLocation
  /\ locationLoading' = FALSE
  /\ Finish(i)
  /\ UNCHANGED <<provider, store, now, ops, forms, loginError, regMsgs,
                 profMsgs, lists, profile, newWorkout, premium, activeSection,
                 hist, variant>>

\* ---- onUpdateProfile -> AuthService.updateUserProfile, then getUserData
onUpdateProfile_A(n) ==
  /\ variant = "A"
  /\ CanStart
  /\ HasUid(userData)
  /\ ops' = ops + 1
  /\ editUsername' = n
  /\ profileUpdateError' = "" /\ profileUpdateSuccess' = ""
  /\ \E i \in Slots :
       /\ FreeSlot(i)
       /\ IF currentUser # NoUid
          THEN Start(i, "onUpdateProfile", "updateProfile", "updateProfile",
                     [target |-> currentUser, displayName |-> n,
                      uid |-> userData.uid])
          ELSE Start(i, "onUpdateProfile", "setDoc", "setDocMerge",
                     [uid |-> userData.uid,
                      doc |-> [username |-> n, displayName |-> n]])
  /\ UNCHANGED <<provider, store, now, forms, loginError, regMsgs,
                 locationError, lists, userData, userProfile, misc, hist, variant>>

onUpdateProfileNamed_A(i) ==
  /\ variant = "A"
  /\ At(i, "onUpdateProfile", "updateProfile") /\ tasks[i].st = "ok"
  /\ Goto(i, "setDoc", "setDocMerge",
          [uid |-> tasks[i].x.uid,
           doc |-> [username |-> tasks[i].x.displayName,
                    displayName |-> tasks[i].x.displayName]])
  /\ UNCHANGED <<provider, store, now, ops, ctrl, hist, variant>>

onUpdateProfileMerged_A(i) ==
  /\ variant = "A"
  /\ At(i, "onUpdateProfile", "setDoc") /\ tasks[i].st = "ok"
  /\ Goto(i, "getUserData", "getDoc",
          [uid |-> tasks[i].x.uid, sent |-> tasks[i].x.doc])
  /\ UNCHANGED <<provider, store, now, ops, ctrl, hist, variant>>

onUpdateProfileDone_A(i) ==
  /\ variant = "A"
  /\ At(i, "onUpdateProfile", "getUserData") /\ tasks[i].st = "ok"
  /\ userData' = getUserData(tasks[i].res)
  /\ profileUpdateSuccess' = "Profile updated successfully!"
  /\ Finish(i)
  /\ UNCHANGED <<provider, store, now, ops, forms, loginError, regMsgs,
                 locationError, profileUpdateError, lists, userProfile,
                 editUsername, misc, hist, variant>>

\* 'Error updating profile: ' + error.message
ProfileErrorText_A(code) ==
  IF code = StoreErr
  THEN "Error updating profile: Firebase: Error (unavailable)."
  ELSE "Error updating profile: Firebase: Error (auth/network-request-failed)."

onUpdateProfileFailed_A(i) ==
  /\ variant = "A"
  /\ tasks[i].op = "onUpdateProfile" /\ tasks[i].st = "err"
  /\ profileUpdateError' = ProfileErrorText_A(tasks[i].res)
  /\ Finish(i)
  /\ UNCHANGED <<provider, store, now, ops, forms, loginError, regMsgs,
                 locationError, profileUpdateSuccess, lists, profile, misc,
                 hist, variant>>

\* ======================================================================
\* Variant B: src/unnamed/part_000 (AppComponent on the SDK directly)
\* ======================================================================
getAuthErrorMessage_B(code) ==
  CASE code = "auth/invalid-email"          -> "Invalid email address"
    [] code = "auth/user-disabled"          -> "This account has been disabled"
    [] code = "auth/user-not-found"         -> "No account found with this email"
    [] code = "auth/wrong-password"         -> "Incorrect password"
    [] code = "auth/email-already-in-use"   -> "An account with this email already exists"
    [] code = "auth/weak-password"          -> "Password is too weak"
    [] code = "auth/network-request-failed" -> "Network error. Please check your connection"
    [] OTHER                                -> "An error occurred. Please try again"

\* String.prototype.trim on the names of the model
Trim(n) == IF n = " Bo " THEN "Bo" ELSE n
\* user.displayName || ''
OrEmpty(n) == IF n = Undef THEN "" ELSE n
\* the name createUserProfile derives from the local part of the e-mail
\* address: letters only -> capitalised, otherwise 'User'
EmailName(u) == IF u = "u1" THEN "Ana" ELSE "User"

\* createUserProfile: the username by priority
ProfileName(u) ==
  IF Trim(registerUsername) # "" THEN Trim(registerUsername)
  ELSE IF Trim(OrEmpty(displayName[u])) # "" THEN Trim(OrEmpty(displayName[u]))
  ELSE EmailName(u)

\* the three free slots the handler needs: loadUserProfile, loadWorkouts and
\* loadSavedLocations all start in the same turn
ThreeFree == Cardinality({i \in Slots : tasks[i].op = "idle"}) >= 3
Lowest(S) == CHOOSE i \in S : \A j \in S : i <= j
IdleSlots == {i \in Slots : tasks[i].op = "idle"}

\* loadWorkouts()/loadSavedLocations() up to their await: the task, or the
\* list cleared when nobody is signed in
Workout_B(d) ==
  [id |-> d.docId, name |-> d.name, type |-> d.type, duration |-> d.duration,
   notes |-> d.notes, date |-> ToDate(d.date)]
loadWorkouts_B(docs) == [k \in DOMAIN docs |-> Workout_B(docs[k])]
Location_B(d) ==
  [id |-> d.docId, latitude |-> d.latitude, longitude |-> d.longitude,
   accuracy |-> d.accuracy, timestamp |-> ToDate(d.timestamp),
   savedAt |-> ToDate(d.savedAt)]
loadSavedLocations_B(docs) == [k \in DOMAIN docs |-> Location_B(docs[k])]

\* ---- constructor: the subscription to user$
AuthStateSignedOut_B ==
  /\ variant = "B"
  /\ stream # <<>> /\ Head(stream) = NoUid
  /\ stream' = Tail(stream)
  /\ userProfile' = Null
  /\ workouts' = <<>>
  /\ savedLocations' = <<>>
  /\ editUsername' = ""
  /\ UNCHANGED <<registered, password, displayName, currentUser, store, now,
                 ops, tasks, forms, messages, userData, misc, hist, variant>>

\* signed in: loadUserProfile(uid), loadWorkouts(), loadSavedLocations() are
\* called without await; the two loads read auth.currentUser
AuthStateSignedIn_B ==
  /\ variant = "B"
  /\ stream # <<>> /\ Head(stream) # NoUid
  /\ ThreeFree
  /\ stream' = Tail(stream)
  /\ editUsername' = OrEmpty(displayName[Head(stream)])
  /\ LET a == Lowest(IdleSlots)
         b == Lowest(IdleSlots \ {a})
         c == Lowest(IdleSlots \ {a, b})
         t1 == [tasks EXCEPT ![a] = Task("loadUserProfile", "getUsers",
                                         "getUsers", [uid |-> Head(stream)])]
     IN IF currentUser = NoUid
        THEN /\ tasks' = t1
             /\ workouts' = <<>>
             /\ savedLocations' = <<>>
        ELSE /\ tasks' = [t1 EXCEPT
                  ![b] = Task("authState", "loadWorkouts", "queryW",
                              [uid |-> currentUser, docId |-> 0]),
                  ![c] = Task("authState", "loadLocations", "queryL",
                              [uid |-> currentUser, docId |-> 0])]
             /\ UNCHANGED lists
  /\ UNCHANGED <<registered, password, displayName, currentUser, store, now,
                 ops, forms, messages, userData, userProfile, misc, escaped, gone,
                 variant>>
  /\ loadFailed' = FALSE

\* ---- loadUserProfile / createUserProfile
\* createUserProfile(userId) up to its await: nothing when nobody is signed
\* in, else setDoc(users/{userId}, profile)
NewProfile(uid) ==
  [id |-> uid, username |-> ProfileName(currentUser),
   email |-> Email(currentUser), isPremium |-> FALSE, memberSince |-> now]
ProfileDoc(pr) == [pr EXCEPT !.memberSince = TsOf(pr.memberSince)]
FallbackProfile(uid) ==
  [id |-> uid, username |-> "Marwan", email |-> "", isPremium |-> FALSE,
   memberSince |-> now]

\* what the caller of createUserProfile does once it returned
AfterCreate_B(i) ==
  /\ IF tasks[i].op = "onRegister"
     THEN /\ registerSuccess' = "Account created successfully! Welcome!"
          /\ registerUsername' = "" /\ registerEmail' = ""
          /\ registerPassword' = ""
     ELSE UNCHANGED <<registerSuccess, regForm>>
  /\ Finish(i)

createUserProfile_B(i, uid) ==
  IF currentUser = NoUid
  THEN /\ AfterCreate_B(i)
       /\ UNCHANGED <<userProfile, isPremium>>
  ELSE /\ Goto(i, "createProfile", "setDoc",
               [uid |-> uid, doc |-> ProfileDoc(NewProfile(uid)),
                profile |-> NewProfile(uid),
                form |-> IF tasks[i].op = "onRegister"
                         THEN [username |-> tasks[i].x.username,
                               password |-> tasks[i].x.password]
                         ELSE NoArgs])
       /\ UNCHANGED <<userProfile, isPremium, registerSuccess, regForm>>

\* createUserProfile after setDoc: the profile, or the local fallback
createUserProfileDone_B(i) ==
  /\ variant = "B"
  /\ tasks[i].pc = "createProfile" /\ tasks[i].st # "sent"
  /\ IF tasks[i].st = "ok"
     THEN userProfile' = tasks[i].x.profile /\ isPremium' = FALSE
     ELSE userProfile' = FallbackProfile(tasks[i].x.uid) /\ UNCHANGED isPremium
  /\ AfterCreate_B(i)
  /\ UNCHANGED <<provider, store, now, ops, loginForm, loginError,
                 registerError, locationError, profMsgs, lists, userData,
                 editUsername, newWorkout, currentLocation, locationLoading,
                 showUpgradeModal, paymentProcessing, activeSection, hist,
                 variant>>

\* userDocSnap.docs[0].data() as UserProfile; isPremium.set(... || false)
FirstDoc(res) == CHOOSE d \in res : TRUE

\* after getDocs(collection(users))
loadUserProfileGotAll_B(i) ==
  /\ variant = "B"
  /\ At(i, "loadUserProfile", "getUsers")
  /\ IF tasks[i].st = "ok"
     THEN /\ Goto(i, "query1", "queryUser", [uid |-> tasks[i].x.uid])
          /\ UNCHANGED <<userProfile, isPremium, registerSuccess, regForm>>
     ELSE createUserProfile_B(i, tasks[i].x.uid)
  /\ UNCHANGED <<provider, store, now, ops, loginForm, loginError,
                 registerError, locationError, profMsgs, lists, userData,
                 editUsername, newWorkout, currentLocation, locationLoading,
                 showUpgradeModal, paymentProcessing, activeSection, hist,
                 variant>>

\* after the first where('id','==',userId) query (inner try)
loadUserProfileQueried_B(i) ==
  /\ variant = "B"
  /\ At(i, "loadUserProfile", "query1")
  /\ IF tasks[i].st = "ok" /\ tasks[i].res # {}
     THEN /\ userProfile' = FirstDoc(tasks[i].res)
          /\ isPremium' = FirstDoc(tasks[i].res).isPremium
          /\ Finish(i)
     ELSE /\ Goto(i, "query2", "queryUser", [uid |-> tasks[i].x.uid])
          /\ UNCHANGED <<userProfile, isPremium>>
  /\ UNCHANGED <<provider, store, now, ops, forms, messages, lists, userData,
                 editUsername, newWorkout, currentLocation, locationLoading,
                 showUpgradeModal, paymentProcessing, activeSection, hist,
                 variant>>

\* after the second, identical query ("alternative method")
loadUserProfileRequeried_B(i) ==
  /\ variant = "B"
  /\ At(i, "loadUserProfile", "query2")
  /\ IF tasks[i].st = "ok" /\ tasks[i].res # {}
     THEN /\ userProfile' = FirstDoc(tasks[i].res)
          /\ isPremium' = FirstDoc(tasks[i].res).isPremium
          /\ Finish(i)
          /\ UNCHANGED <<registerSuccess, regForm>>
     ELSE createUserProfile_B(i, tasks[i].x.uid)
  /\ UNCHANGED <<provider, store, now, ops, loginForm, loginError,
                 registerError, locationError, profMsgs, lists, userData,
                 editUsername, newWorkout, currentLocation, locationLoading,
                 showUpgradeModal, paymentProcessing, activeSection, hist,
                 variant>>

\* ---- onLogin
onLogin_B(e, p) ==
  /\ variant = "B"
  /\ CanStart
  /\ ops' = ops + 1
  /\ loginEmail' = e /\ loginPassword' = p
  /\ IF e = "" \/ p = ""
     THEN /\ loginError' = "Please enter both email and password"
          /\ UNCHANGED tasks
     ELSE /\ loginError' = ""
          /\ \E i \in Slots :
               /\ FreeSlot(i)
               /\ Start(i, "onLogin", "login", "signIn",
                        [email |-> e, password |-> p])
  /\ UNCHANGED <<provider, store, now, regForm, regMsgs, locationError,
                 profMsgs, lists, profile, misc, hist, variant>>

onLoginDone_B(i) ==
  /\ variant = "B"
  /\ At(i, "onLogin", "login")
  /\ IF tasks[i].st = "ok"
     THEN loginEmail' = "" /\ loginPassword' = "" /\ UNCHANGED loginError
     ELSE /\ loginError' = getAuthErrorMessage_B(tasks[i].res)
          /\ UNCHANGED <<loginEmail, loginPassword>>
  /\ Finish(i)
  /\ UNCHANGED <<provider, store, now, ops, regForm, regMsgs, locationError,
                 profMsgs, lists, profile, misc, hist, variant>>

\* ---- onRegister
onRegister_B(e, p, n) ==
  /\ variant = "B"
  /\ CanStart
  /\ ops' = ops + 1
  /\ registerEmail' = e /\ registerPassword' = p /\ registerUsername' = n
  /\ registerSuccess' = ""
  /\ IF e = "" \/ p = "" \/ n = ""
     THEN registerError' = "Please fill in all fields" /\ UNCHANGED tasks
     ELSE IF PwLen(p) < 6
     THEN /\ registerError' = "Password must be at least 6 characters"
          /\ UNCHANGED tasks
     ELSE /\ registerError' = ""
          /\ \E i \in Slots :
               /\ FreeSlot(i)
               /\ Start(i, "onRegister", "createUser", "createUser",
                        [email |-> e, password |-> p, username |-> n])
  /\ UNCHANGED <<provider, store, now, loginForm, loginError, locationError,
                 profMsgs, lists, profile, misc, hist, variant>>

\* after createUserWithEmailAndPassword: updateProfile with the form's name
onRegisterCreated_B(i) ==
  /\ variant = "B"
  /\ At(i, "onRegister", "createUser") /\ tasks[i].st = "ok"
  /\ Goto(i, "updateProfile", "updateProfile",
          [target |-> tasks[i].res, displayName |-> registerUsername,
           password |-> tasks[i].x.password, username |-> tasks[i].x.username])
  /\ UNCHANGED <<provider, store, now, ops, ctrl, hist, variant>>

\* after updateProfile: await this.createUserProfile(uid)
onRegisterNamed_B(i) ==
  /\ variant = "B"
  /\ At(i, "onRegister", "updateProfile") /\ tasks[i].st = "ok"
  /\ createUserProfile_B(i, tasks[i].x.target)
  /\ UNCHANGED <<provider, store, now, ops, loginForm, loginError,
                 registerError, locationError, profMsgs, lists, userData,
                 editUsername, newWorkout, currentLocation, locationLoading,
                 showUpgradeModal, paymentProcessing, activeSection, hist,
                 variant>>

\* the catch: createUser or updateProfile threw
onRegisterFailed_B(i) ==
  /\ variant = "B"
  /\ tasks[i].op = "onRegister" /\ tasks[i].st = "err"
  /\ tasks[i].pc \in {"createUser", "updateProfile"}
  /\ registerError' = getAuthErrorMessage_B(tasks[i].res)
  /\ Finish(i)
  /\ UNCHANGED <<provider, store, now, ops, forms, loginError,
                 registerSuccess, locationError, profMsgs, lists, profile,
                 misc, hist, variant>>

\* ---- signOut
signOut_B ==
  /\ variant = "B"
  /\ CanStart
  /\ ops' = ops + 1
  /\ \E i \in Slots :
       /\ FreeSlot(i)
       /\ Start(i, "signOut", "logout", "signOut", NoArgs)
  /\ UNCHANGED <<provider, store, now, ctrl, hist, variant>>

signOutDone_B(i) ==
  /\ variant = "B"
  /\ At(i, "signOut", "logout")
  /\ activeSection' = IF tasks[i].st = "ok" THEN "dashboard" ELSE activeSection
  /\ Finish(i)
  /\ UNCHANGED <<provider, store, now, ops, forms, messages, lists, profile,
                 newWorkout, currentLocation, locationLoading, premium,
                 hist, variant>>

\* ---- the state after construction.  The backend outlives the process: it
\* starts with one account ("u1", with its document and one workout); the
\* session of an earlier run may have been kept, and user$ emits it first.
\* the backend outlives the page: l0 is what users/{u}/locations holds when
\* the page is opened
InitWorldWith(l0) ==
  /\ registered = {"u1"}
  /\ password = [u \in UIDs |-> "secret1"]
  /\ displayName = [u \in UIDs |-> IF u = "u1" THEN "Ana" ELSE Undef]
  /\ currentUser \in {NoUid, "u1"}
  /\ stream = <<currentUser>>
  /\ wStore = [u \in UIDs |->
        IF u = "u1"
        THEN {[docId |-> 1, name |-> "Walk", type |-> "Cardio", duration |-> 20,
               notes |-> "", date |-> TsOf(0)]}
        ELSE {}]
  /\ lStore = l0
  /\ nextId = 2
  /\ now = 0
  /\ ops = 0
  /\ tasks = [i \in Slots |-> Idle]
  /\ escaped = FALSE
  /\ ever = [u \in UIDs |-> [w |-> wStore[u], l |-> lStore[u]]]
  /\ gone = {}
  /\ loadFailed = FALSE

InitWorld == InitWorldWith([u \in UIDs |-> {}])

InitCtrl ==
  /\ loginEmail = "" /\ loginPassword = ""
  /\ registerUsername = "" /\ registerEmail = "" /\ registerPassword = ""
  /\ loginError = "" /\ registerError = "" /\ registerSuccess = ""
  /\ workouts = <<>> /\ savedLocations = <<>>
  /\ newWorkout = EmptyForm
  /\ currentLocation = Null
  /\ locationLoading = FALSE
  /\ locationError = ""
  /\ userData = Null
  /\ userProfile = Null
  /\ editUsername = ""
  /\ profileUpdateError = "" /\ profileUpdateSuccess = ""
  /\ isPremium = FALSE /\ showUpgradeModal = FALSE /\ paymentProcessing = FALSE
  /\ activeSection = "dashboard"

\* the document AuthService.register wrote for u1
UserDocs_A ==
  [u \in UIDs |->
     IF u = "u1"
     THEN [uid |-> "u1", email |-> Email("u1"), username |-> "Ana",
           displayName |-> "Ana", createdAt |-> TsOf(0)]
     ELSE Null]

Init_A ==
  /\ variant = "A"
  /\ InitWorld
  /\ InitCtrl
  /\ userDocs = UserDocs_A

\* a location u1 saved in an earlier visit; saveLocation spreads the captured
\* location, id: '' included, into the document
StoredLocation_A ==
  [docId |-> 1, id |-> EmptyId, latitude |-> 48, longitude |-> 2,
   accuracy |-> 9, timestamp |-> TsOf(0), savedAt |-> TsOf(0)]

Init_ListsA ==
  /\ variant = "A"
  /\ InitWorldWith([u \in UIDs |-> IF u = "u1" THEN {StoredLocation_A} ELSE {}])
  /\ InitCtrl
  /\ userDocs = UserDocs_A


\* ---- workouts
\* what follows `await this.loadWorkouts()` in addWorkout: the form is reset
AfterReloadWorkouts_B(i) ==
  newWorkout' = IF tasks[i].op = "addWorkout" THEN EmptyForm ELSE newWorkout

\* loadWorkouts() called at the end of add/delete: reads auth.currentUser
ReloadWorkouts_B(i) ==
  IF currentUser = NoUid
  THEN /\ workouts' = <<>>
       /\ AfterReloadWorkouts_B(i)
       /\ Finish(i)
  ELSE /\ Goto(i, "loadWorkouts", "queryW",
               [uid |-> currentUser, docId |-> tasks[i].x.docId,
             wrote |-> tasks[i].res])
       /\ UNCHANGED <<workouts, newWorkout>>

\* loadWorkouts() after its await: the records, or [] when the query failed
LoadWorkoutsDone_B(i) ==
  /\ variant = "B"
  /\ tasks[i].pc = "loadWorkouts" /\ tasks[i].st # "sent"
  /\ tasks[i].op \in {"authState", "addWorkout", "deleteWorkout"}
  /\ workouts' = IF tasks[i].st = "ok" THEN loadWorkouts_B(tasks[i].res)
                                        ELSE <<>>
  /\ AfterReloadWorkouts_B(i)
  /\ Finish(i)
  /\ UNCHANGED <<provider, store, now, ops, forms, messages, savedLocations,
                 profile, currentLocation, locationLoading, premium,
                 activeSection, escaped, loadFailed, variant>>
  /\ Gone(i)

addWorkout_B(form) ==
  /\ variant = "B"
  /\ CanStart
  /\ currentUser # NoUid
  /\ ops' = ops + 1
  /\ newWorkout' = form
  /\ \E i \in Slots :
       /\ FreeSlot(i)
       /\ Start(i, "addWorkout", "add", "addW",
                [uid |-> currentUser, docId |-> 0,
                 data |-> [docId |-> 0, name |-> form.name, type |-> form.type,
                           duration |-> form.duration, notes |-> form.notes,
                           date |-> TsOf(now)]])
  /\ UNCHANGED <<provider, store, now, forms, messages, lists, profile,
                 currentLocation, locationLoading, premium, activeSection,
                 hist, variant>>

addWorkoutAdded_B(i) ==
  /\ variant = "B"
  /\ At(i, "addWorkout", "add")
  /\ IF tasks[i].st = "ok"
     THEN ReloadWorkouts_B(i)
     ELSE Finish(i) /\ UNCHANGED <<workouts, newWorkout>>
  /\ UNCHANGED <<provider, store, now, ops, forms, messages, savedLocations,
                 profile, currentLocation, locationLoading, premium,
                 activeSection, hist, variant>>

deleteWorkout_B(id) ==
  /\ variant = "B"
  /\ CanStart
  /\ currentUser # NoUid
  /\ ops' = ops + 1
  /\ \E i \in Slots :
       /\ FreeSlot(i)
       /\ Start(i, "deleteWorkout", "delete", "delW",
                [uid |-> currentUser, docId |-> id])
  /\ UNCHANGED <<provider, store, now, ctrl, hist, variant>>

deleteWorkoutDeleted_B(i) ==
  /\ variant = "B"
  /\ At(i, "deleteWorkout", "delete")
  /\ IF tasks[i].st = "ok"
     THEN ReloadWorkouts_B(i)
     ELSE Finish(i) /\ UNCHANGED <<workouts, newWorkout>>
  /\ UNCHANGED <<provider, store, now, ops, forms, messages, savedLocations,
                 profile, currentLocation, locationLoading, premium,
                 activeSection, escaped, loadFailed, variant>>
  /\ Gone(i)

\* ---- locations
ReloadLocations_B(i) ==
  IF currentUser = NoUid
  THEN savedLocations' = <<>> /\ Finish(i)
  ELSE /\ Goto(i, "loadLocations", "queryL",
               [uid |-> currentUser, docId |-> tasks[i].x.docId,
             wrote |-> tasks[i].res])
       /\ UNCHANGED savedLocations

LoadLocationsDone_B(i) ==
  /\ variant = "B"
  /\ tasks[i].pc = "loadLocations" /\ tasks[i].st # "sent"
  /\ tasks[i].op \in {"authState", "saveLocation", "deleteLocation"}
  /\ savedLocations' = IF tasks[i].st = "ok"
                       THEN loadSavedLocations_B(tasks[i].res) ELSE <<>>
  /\ Finish(i)
  /\ UNCHANGED <<provider, store, now, ops, forms, messages, workouts,
                 profile, misc, escaped, loadFailed, variant>>
  /\ Gone(i)

\* a saveLocation that stores the savedAt of the captured location
saveLocation_B_CaptureTime ==
  /\ variant = "B"
  /\ CanStart
  /\ currentUser # NoUid /\ currentLocation # Null
  /\ ops' = ops + 1
  /\ \E i \in Slots :
       /\ FreeSlot(i)
       /\ Start(i, "saveLocation", "save", "addL",
                [uid |-> currentUser, docId |-> 0, loc |-> currentLocation,
                 data |-> [docId |-> 0, id |-> NoField,
                           latitude |-> currentLocation.latitude,
                           longitude |-> currentLocation.longitude,
                           accuracy |-> currentLocation.accuracy,
                           timestamp |-> TsOf(currentLocation.timestamp),
                           savedAt |-> TsOf(currentLocation.savedAt)]])
  /\ UNCHANGED <<provider, store, now, ctrl, hist, variant>>

\* saveLocation stores the five fields, timestamp: new Date(timestamp),
\* savedAt: new Date(); the captured location stays
saveLocation_B ==
  /\ variant = "B"
  /\ CanStart
  /\ currentUser # NoUid /\ currentLocation # Null
  /\ ops' = ops + 1
  /\ \E i \in Slots :
       /\ FreeSlot(i)
       /\ Start(i, "saveLocation", "save", "addL",
                [uid |-> currentUser, docId |-> 0, loc |-> currentLocation,
                 data |-> [docId |-> 0, id |-> NoField,
                           latitude |-> currentLocation.latitude,
                           longitude |-> currentLocation.longitude,
                           accuracy |-> currentLocation.accuracy,
                           timestamp |-> TsOf(currentLocation.timestamp),
                           savedAt |-> TsOf(now)]])
  /\ UNCHANGED <<provider, store, now, ctrl, hist, variant>>

saveLocationSaved_B(i) ==
  /\ variant = "B"
  /\ At(i, "saveLocation", "save")
  /\ IF tasks[i].st = "ok"
     THEN ReloadLocations_B(i)
     ELSE Finish(i) /\ UNCHANGED savedLocations
  /\ UNCHANGED <<provider, store, now, ops, forms, messages, workouts,
                 profile, misc, hist, variant>>

deleteLocation_B(id) ==
  /\ variant = "B"
  /\ CanStart
  /\ currentUser # NoUid
  /\ ops' = ops + 1
  /\ \E i \in Slots :
       /\ FreeSlot(i)
       /\ Start(i, "deleteLocation", "delete", "delL",
                [uid |-> currentUser, docId |-> id])
  /\ UNCHANGED <<provider, store, now, ctrl, hist, variant>>

deleteLocationDeleted_B(i) ==
  /\ variant = "B"
  /\ At(i, "deleteLocation", "delete")
  /\ IF tasks[i].st = "ok"
     THEN ReloadLocations_B(i)
     ELSE Finish(i) /\ UNCHANGED savedLocations
  /\ UNCHANGED <<provider, store, now, ops, forms, messages, workouts,
                 profile, misc, escaped, loadFailed, variant>>
  /\ Gone(i)

\* getCurrentLocation: {enableHighAccuracy, timeout: 10000, maximumAge}
GeoTimeoutMs == 10000
getCurrentLocation_B ==
  /\ variant = "B"
  /\ CanStart
  /\ ops' = ops + 1
  /\ locationLoading' = TRUE
  /\ locationError' = ""
  /\ \E i \in Slots :
       /\ FreeSlot(i)
       /\ Start(i, "getCurrentLocation", "position", "geo",
                [timeout |-> GeoTimeoutMs])
  /\ UNCHANGED <<provider, store, now, forms, loginError, regMsgs, profMsgs,
                 lists, profile, newWorkout, currentLocation, premium,
                 activeSection, hist, variant>>

\* after the awaited position promise: try / catch / finally
gotPosition_B(i) ==
  /\ variant = "B"
  /\ At(i, "getCurrentLocation", "position")
  /\ IF tasks[i].st = "ok"
     THEN /\ currentLocation' =
               [id |-> EmptyId, latitude |-> tasks[i].res.latitude,
                longitude |-> tasks[i].res.longitude,
                accuracy |-> tasks[i].res.accuracy,
                timestamp |-> tasks[i].res.timestamp, savedAt |-> now]
          /\ UNCHANGED locationError
     ELSE /\ locationError' = getLocationErrorMessage(tasks[i].res)
          /\ UNCHANGED currentLocation
  /\ locationLoading' = FALSE
  /\ Finish(i)
  /\ UNCHANGED <<provider, store, now, ops, forms, loginError, regMsgs,
                 profMsgs, lists, profile, newWorkout, premium, activeSection,
                 hist, variant>>

\* ---- profile update and premium upgrade
\* {...null, ...updates}: the profile left when userProfile() was cleared
\* while updateDoc was pending (a missing isPremium reads as false)
NoProfile ==
  [id |-> Undef, username |-> Undef, email |-> Undef, isPremium |-> FALSE,
   memberSince |-> NoField]

\* what the caller of updateUserProfile does once it returned: onUpdateProfile
\* reports success and arms the 3 s timer that clears the message;
\* processPayment's callback sets the premium flag and closes the modal
AfterUpdate_B(i) ==
  IF tasks[i].op = "onUpdateProfile"
  THEN /\ profileUpdateSuccess' = "Profile updated successfully!"
       /\ editUsername' = ""
       /\ Goto(i, "clear", "timeout", NoArgs)
       /\ UNCHANGED premium
  ELSE /\ isPremium' = TRUE
       /\ showUpgradeModal' = FALSE
       /\ paymentProcessing' = FALSE
       /\ Finish(i)
       /\ UNCHANGED <<profileUpdateSuccess, editUsername>>

\* updateUserProfile(updates) up to its await: returns at once when nobody is
\* signed in or no profile is held (sent keeps what the action's first call
\* carried, for the properties)
updateUserProfile_B(i, updates) ==
  IF currentUser = NoUid \/ userProfile = Null
  THEN AfterUpdate_B(i)
  ELSE /\ Goto(i, "updateDoc", "updateDoc",
               [uid |-> currentUser, doc |-> updates, sent |-> tasks[i].x])
       /\ UNCHANGED <<profileUpdateSuccess, editUsername, premium>>

\* updateUserProfile after its await: the local profile follows on success,
\* a failure is logged; either way the caller goes on
updateUserProfileDone_B(i) ==
  /\ variant = "B"
  /\ tasks[i].pc = "updateDoc" /\ tasks[i].st # "sent"
  /\ userProfile' = IF tasks[i].st # "ok" THEN userProfile
                    ELSE IF userProfile = Null
                         THEN Spread(NoProfile, tasks[i].x.doc)
                         ELSE Spread(userProfile, tasks[i].x.doc)
  /\ AfterUpdate_B(i)
  /\ UNCHANGED <<provider, store, now, ops, forms, loginError, regMsgs,
                 locationError, profileUpdateError, lists, userData,
                 newWorkout, currentLocation, locationLoading, activeSection,
                 hist, variant>>

\* onUpdateProfile with editUsername = n: without a user, the demo-mode
\* message; with one, updateProfile(user, {displayName})
onUpdateProfile_B(n) ==
  /\ variant = "B"
  /\ CanStart
  /\ ops' = ops + 1
  /\ \E i \in Slots :
       /\ FreeSlot(i)
       /\ IF currentUser = NoUid
          THEN /\ profileUpdateSuccess' = "Profile updated successfully! (Demo mode)"
               /\ editUsername' = ""
               /\ Start(i, "onUpdateProfile", "clear", "timeout", NoArgs)
          ELSE /\ editUsername' = n
               /\ Start(i, "onUpdateProfile", "updateProfile", "updateProfile",
                        [target |-> currentUser, displayName |-> n])
               /\ UNCHANGED profileUpdateSuccess
  /\ UNCHANGED <<provider, store, now, forms, loginError, regMsgs,
                 locationError, profileUpdateError, lists, userData,
                 userProfile, misc, hist, variant>>

onUpdateProfileNamed_B(i) ==
  /\ variant = "B"
  /\ At(i, "onUpdateProfile", "updateProfile")
  /\ IF tasks[i].st = "ok"
     THEN /\ updateUserProfile_B(i, [username |-> editUsername])
          /\ UNCHANGED profileUpdateError
     ELSE /\ profileUpdateError' = ErrMessage(tasks[i].res)
          /\ Finish(i)
          /\ UNCHANGED <<profileUpdateSuccess, editUsername, premium>>
  /\ UNCHANGED <<provider, store, now, ops, forms, loginError, regMsgs,
                 locationError, lists, userData, userProfile, newWorkout,
                 currentLocation, locationLoading, activeSection, hist,
                 variant>>

\* setTimeout(() => profileUpdateSuccess.set(''), 3000) fires
clearSuccess_B(i) ==
  /\ variant = "B"
  /\ tasks[i].op = "onUpdateProfile" /\ tasks[i].pc = "clear"
  /\ profileUpdateSuccess' = ""
  /\ Finish(i)
  /\ UNCHANGED <<provider, store, now, ops, forms, loginError, regMsgs,
                 locationError, profileUpdateError, lists, profile, misc,
                 hist, variant>>

openUpgradeModal_B ==
  /\ variant = "B"
  /\ ops < MaxOps
  /\ ~showUpgradeModal
  /\ ops' = ops + 1
  /\ showUpgradeModal' = TRUE
  /\ UNCHANGED <<provider, store, now, tasks, forms, messages, lists, profile,
                 newWorkout, currentLocation, locationLoading, isPremium,
                 paymentProcessing, activeSection, hist, variant>>

closeUpgradeModal_B ==
  /\ variant = "B"
  /\ ops < MaxOps
  /\ showUpgradeModal \/ paymentProcessing
  /\ ops' = ops + 1
  /\ showUpgradeModal' = FALSE
  /\ paymentProcessing' = FALSE
  /\ UNCHANGED <<provider, store, now, tasks, forms, messages, lists, profile,
                 newWorkout, currentLocation, locationLoading, isPremium,
                 activeSection, hist, variant>>

\* processPayment: paymentProcessing.set(true); setTimeout(..., 2000)
processPayment_B ==
  /\ variant = "B"
  /\ CanStart
  /\ ops' = ops + 1
  /\ paymentProcessing' = TRUE
  /\ \E i \in Slots :
       /\ FreeSlot(i)
       /\ Start(i, "processPayment", "delay", "timeout", NoArgs)
  /\ UNCHANGED <<provider, store, now, forms, messages, lists, profile,
                 newWorkout, currentLocation, locationLoading, isPremium,
                 showUpgradeModal, activeSection, hist, variant>>

\* the callback of the 2 s timer
paymentDelayElapsed_B(i) ==
  /\ variant = "B"
  /\ tasks[i].op = "processPayment" /\ tasks[i].pc = "delay"
  /\ IF currentUser # NoUid
     THEN updateUserProfile_B(i, [isPremium |-> TRUE])
     ELSE AfterUpdate_B(i)
  /\ UNCHANGED <<provider, store, now, ops, forms, loginError, regMsgs,
                 locationError, profileUpdateError, lists, userData,
                 userProfile, newWorkout, currentLocation, locationLoading,
                 activeSection, hist, variant>>

\* the document createUserProfile wrote for u1
UserDocs_B ==
  [u \in UIDs |->
     IF u = "u1"
     THEN [id |-> "u1", username |-> "Ana", email |-> Email("u1"),
           isPremium |-> FALSE, memberSince |-> TsOf(0)]
     ELSE Null]

Init_B ==
  /\ variant = "B"
  /\ InitWorld
  /\ InitCtrl
  /\ userDocs = UserDocs_B

\* a location u1 saved in an earlier visit: the five fields saveLocation writes
StoredLocation_B ==
  [docId |-> 1, id |-> NoField, latitude |-> 48, longitude |-> 2,
   accuracy |-> 9, timestamp |-> TsOf(0), savedAt |-> TsOf(0)]

Init_ListsB ==
  /\ variant = "B"
  /\ InitWorldWith([u \in UIDs |-> IF u = "u1" THEN {StoredLocation_B} ELSE {}])
  /\ InitCtrl
  /\ userDocs = UserDocs_B

\* ======================================================================
\* Specifications.  Each one runs one controller on one group of user
\* actions, together with the subscription to the session stream.
\* ======================================================================
\* ---- variant A, accounts: login, register, sign-out
Next_SessionA ==
  \/ \E i \in Slots :
       \/ ServeSignIn(i)
       \/ ServeCreateUser(i)
       \/ ServeUpdateProfile(i)
       \/ ServeSignOut(i)
       \/ ServeGetDoc(i)
       \/ ServeSetDoc(i)
       \/ ServeQuery(i)
  \/ AuthStateSignedOut_A
  \/ AuthStateSignedIn_A
  \/ \E e \in Emails, p \in Passwords : onLogin_A(e, p)
  \/ \E e \in Emails, p \in Passwords, n \in Names : onRegister_A(e, p, n)
  \/ signOut_A
  \/ \E i \in Slots :
       \/ AuthStateGotUser_A(i)
       \/ LoadWorkoutsDone_A(i)
       \/ LoadLocationsDone_A(i)
       \/ onLoginDone_A(i)
       \/ onRegisterCreated_A(i)
       \/ onRegisterNamed_A(i)
       \/ onRegisterDone_A(i)
       \/ onRegisterFailed_A(i)
       \/ signOutDone_A(i)

Spec_SessionA == Init_A /\ [][Next_SessionA]_vars

\* ---- variant B, accounts
Next_SessionB ==
  \/ \E i \in Slots :
       \/ ServeSignIn(i)
       \/ ServeCreateUser(i)
       \/ ServeUpdateProfile(i)
       \/ ServeSignOut(i)
       \/ ServeGetUsers(i)
       \/ ServeQueryUser(i)
       \/ ServeSetDoc(i)
       \/ ServeQuery(i)
  \/ AuthStateSignedOut_B
  \/ AuthStateSignedIn_B
  \/ \E e \in Emails, p \in Passwords : onLogin_B(e, p)
  \/ \E e \in Emails, p \in Passwords, n \in Names : onRegister_B(e, p, n)
  \/ signOut_B
  \/ \E i \in Slots :
       \/ loadUserProfileGotAll_B(i)
       \/ loadUserProfileQueried_B(i)
       \/ loadUserProfileRequeried_B(i)
       \/ createUserProfileDone_B(i)
       \/ LoadWorkoutsDone_B(i)
       \/ LoadLocationsDone_B(i)
       \/ onLoginDone_B(i)
       \/ onRegisterCreated_B(i)
       \/ onRegisterNamed_B(i)
       \/ onRegisterFailed_B(i)
       \/ signOutDone_B(i)

Spec_SessionB == Init_B /\ [][Next_SessionB]_vars

\* ---- both variants, workouts: add, delete, sign-out
Next_Workouts ==
  \/ \E i \in Slots :
       \/ ServeSignOut(i)
       \/ ServeGetDoc(i)
       \/ ServeGetUsers(i)
       \/ ServeQueryUser(i)
       \/ ServeSetDoc(i)
       \/ ServeQuery(i)
       \/ ServeAddDoc(i)
       \/ ServeDeleteDoc(i)
  \/ Tick
  \/ AuthStateSignedOut_A
  \/ AuthStateSignedIn_A
  \/ signOut_A
  \/ \E f \in Forms : addWorkout_A(f)
  \/ \E id \in Shown(workouts) : deleteWorkout_A(id)
  \/ \E i \in Slots :
       \/ AuthStateGotUser_A(i)
       \/ LoadWorkoutsDone_A(i)
       \/ LoadLocationsDone_A(i)
       \/ signOutDone_A(i)
       \/ addWorkoutAdded_A(i)
       \/ deleteWorkoutDeleted_A(i)
  \/ AuthStateSignedOut_B
  \/ AuthStateSignedIn_B
  \/ signOut_B
  \/ \E f \in Forms : addWorkout_B(f)
  \/ \E id \in Shown(workouts) : deleteWorkout_B(id)
  \/ \E i \in Slots :
       \/ loadUserProfileGotAll_B(i)
       \/ loadUserProfileQueried_B(i)
       \/ loadUserProfileRequeried_B(i)
       \/ createUserProfileDone_B(i)
       \/ LoadWorkoutsDone_B(i)
       \/ LoadLocationsDone_B(i)
       \/ signOutDone_B(i)
       \/ addWorkoutAdded_B(i)
       \/ deleteWorkoutDeleted_B(i)

Init_Workouts == Init_A \/ Init_B
Spec_Workouts == Init_Workouts /\ [][Next_Workouts]_vars

\* ---- both variants, the two lists: add and delete a workout, capture, save
\* and delete a location.  Every location variant A loads carries the stored id '', so
\* its deleteLocation never gets as far as a store call.
Next_Lists ==
  \/ \E i \in Slots :
       \/ ServeGetDoc(i)
       \/ ServeGetUsers(i)
       \/ ServeQueryUser(i)
       \/ ServeSetDoc(i)
       \/ ServeQuery(i)
       \/ ServeAddDoc(i)
       \/ ServeDeleteDoc(i)
       \/ ServeGeo(i)
  \/ Tick
  \/ AuthStateSignedOut_A
  \/ AuthStateSignedIn_A
  \/ \E f \in Forms : addWorkout_A(f)
  \/ \E id \in Shown(workouts) : deleteWorkout_A(id)
  \/ getCurrentLocation_A
  \/ saveLocation_A
  \/ \E id \in Shown(savedLocations) : deleteLocation_A(id)
  \/ \E i \in Slots :
       \/ AuthStateGotUser_A(i)
       \/ LoadWorkoutsDone_A(i)
       \/ LoadLocationsDone_A(i)
       \/ addWorkoutAdded_A(i)
       \/ deleteWorkoutDeleted_A(i)
       \/ gotPosition_A(i)
       \/ saveLocationSaved_A(i)
  \/ AuthStateSignedOut_B
  \/ AuthStateSignedIn_B
  \/ \E f \in Forms : addWorkout_B(f)
  \/ \E id \in Shown(workouts) : deleteWorkout_B(id)
  \/ getCurrentLocation_B
  \/ saveLocation_B
  \/ \E id \in Shown(savedLocations) : deleteLocation_B(id)
  \/ \E i \in Slots :
       \/ loadUserProfileGotAll_B(i)
       \/ loadUserProfileQueried_B(i)
       \/ loadUserProfileRequeried_B(i)
       \/ createUserProfileDone_B(i)
       \/ LoadWorkoutsDone_B(i)
       \/ LoadLocationsDone_B(i)
       \/ addWorkoutAdded_B(i)
       \/ deleteWorkoutDeleted_B(i)
       \/ gotPosition_B(i)
       \/ saveLocationSaved_B(i)
       \/ deleteLocationDeleted_B(i)

Init_Lists == Init_ListsA \/ Init_ListsB
Spec_Lists == Init_Lists /\ [][Next_Lists]_vars

\* ---- the same, in the runs in which no call is rejected
NoCallFails == \A i \in Slots : tasks'[i].st # "err"
Next_ListsOk == Next_Lists /\ NoCallFails
Spec_ListsOk == Init_Lists /\ [][Next_ListsOk]_vars

\* ---- both variants, the profile: update the username, upgrade to premium,
\* sign out
Next_Profile ==
  \/ \E i \in Slots :
       \/ ServeSignOut(i)
       \/ ServeUpdateProfile(i)
       \/ ServeGetDoc(i)
       \/ ServeGetUsers(i)
       \/ ServeQueryUser(i)
       \/ ServeSetDoc(i)
       \/ ServeSetDocMerge(i)
       \/ ServeUpdateDoc(i)
       \/ ServeQuery(i)
  \/ AuthStateSignedOut_A
  \/ AuthStateSignedIn_A
  \/ signOut_A
  \/ \E n \in Names : onUpdateProfile_A(n)
  \/ \E i \in Slots :
       \/ AuthStateGotUser_A(i)
       \/ LoadWorkoutsDone_A(i)
       \/ LoadLocationsDone_A(i)
       \/ signOutDone_A(i)
       \/ onUpdateProfileNamed_A(i)
       \/ onUpdateProfileMerged_A(i)
       \/ onUpdateProfileDone_A(i)
       \/ onUpdateProfileFailed_A(i)
  \/ AuthStateSignedOut_B
  \/ AuthStateSignedIn_B
  \/ signOut_B
  \/ \E n \in Names : onUpdateProfile_B(n)
  \/ openUpgradeModal_B
  \/ closeUpgradeModal_B
  \/ processPayment_B
  \/ \E i \in Slots :
       \/ loadUserProfileGotAll_B(i)
       \/ loadUserProfileQueried_B(i)
       \/ loadUserProfileRequeried_B(i)
       \/ createUserProfileDone_B(i)
       \/ LoadWorkoutsDone_B(i)
       \/ LoadLocationsDone_B(i)
       \/ signOutDone_B(i)
       \/ onUpdateProfileNamed_B(i)
       \/ updateUserProfileDone_B(i)
       \/ clearSuccess_B(i)
       \/ paymentDelayElapsed_B(i)

Init_Profile == Init_A \/ Init_B
Spec_Profile == Init_Profile /\ [][Next_Profile]_vars

\* ---- both variants, sign-out from any section
Next_Logout ==
  \/ \E i \in Slots :
       \/ ServeSignOut(i)
       \/ ServeGetDoc(i)
       \/ ServeGetUsers(i)
       \/ ServeQueryUser(i)
       \/ ServeSetDoc(i)
       \/ ServeQuery(i)
  \/ \E sec \in Sections : showSection(sec)
  \/ AuthStateSignedOut_A
  \/ AuthStateSignedIn_A
  \/ signOut_A
  \/ \E i \in Slots :
       \/ AuthStateGotUser_A(i)
       \/ LoadWorkoutsDone_A(i)
       \/ LoadLocationsDone_A(i)
       \/ signOutDone_A(i)
  \/ AuthStateSignedOut_B
  \/ AuthStateSignedIn_B
  \/ signOut_B
  \/ \E i \in Slots :
       \/ loadUserProfileGotAll_B(i)
       \/ loadUserProfileQueried_B(i)
       \/ loadUserProfileRequeried_B(i)
       \/ createUserProfileDone_B(i)
       \/ LoadWorkoutsDone_B(i)
       \/ LoadLocationsDone_B(i)
       \/ signOutDone_B(i)

Init_Logout == Init_A \/ Init_B
Spec_Logout == Init_Logout /\ [][Next_Logout]_vars

\* ---- both variants, geolocation.  The device may never answer, so its
\* answer gets no fairness; a timer that was set does run out, and a
\* callback whose promise has settled does run.
Next_Geo ==
  \/ \E i \in Slots :
       \/ ServeGeo(i)
       \/ GeoTimeoutElapsed(i)
       \/ gotPosition_A(i)
       \/ gotPosition_B(i)
  \/ Tick
  \/ getCurrentLocation_A
  \/ getCurrentLocation_B

Init_Geo == Init_A \/ Init_B
Fair_Geo ==
  \A i \in Slots :
    /\ WF_vars(GeoTimeoutElapsed(i))
    /\ WF_vars(gotPosition_A(i))
    /\ WF_vars(gotPosition_B(i))
Spec_Geo == Init_Geo /\ [][Next_Geo]_vars /\ Fair_Geo

\* ======================================================================
\* The claims
\* ======================================================================
Ids(S) == {d.docId : d \in S}
Location(d) == IF variant = "A" THEN Location_A(d) ELSE Location_B(d)
Workout(d)  == IF variant = "A" THEN Workout_A(d) ELSE Workout_B(d)
\* the user record of the running controller
UserRecord  == IF variant = "A" THEN userData ELSE userProfile
UserRecordId == IF variant = "A" THEN UserRecord.uid ELSE UserRecord.id
\* every session transition has reached the subscriber
Delivered == stream = <<>>

\* C1: once every session transition is delivered, every record of the
\* workouts list and of the saved-locations list was stored under the id of
\* the signed-in user, and both lists are empty when nobody is signed in.
C1_OnlyOwnRecords ==
  Delivered =>
    IF currentUser = NoUid
    THEN workouts = <<>> /\ savedLocations = <<>>
    ELSE /\ \A k \in DOMAIN workouts :
              \E d \in ever[currentUser].w : Workout(d) = workouts[k]
         /\ \A k \in DOMAIN savedLocations :
              \E d \in ever[currentUser].l : Location(d) = savedLocations[k]

\* C2: the step in which the subscriber handles the signed-out transition
\* leaves the user record null, both lists empty, and the captured location,
\* the edit-username field and the premium flag at their initial values.
SignedOutStep ==
  stream # <<>> /\ Head(stream) = NoUid /\ stream' = Tail(stream)
C2_SignOutClearsAll ==
  [][SignedOutStep =>
       /\ userData' = Null /\ userProfile' = Null
       /\ workouts' = <<>> /\ savedLocations' = <<>>
       /\ currentLocation' = Null
       /\ editUsername' = ""
       /\ isPremium' = FALSE]_vars

\* C3: a delete action's reload is in flight only when the store no longer
\* holds the record, and a list never shows a record whose delete action
\* has ended with the store delete and the reload both served.
C3_DeletedNeverShown ==
  /\ \A i \in Slots :
       /\ tasks[i].op = "deleteWorkout" /\ tasks[i].pc = "loadWorkouts"
            => tasks[i].x.docId \notin Ids(wStore[tasks[i].x.uid])
       /\ tasks[i].op = "deleteLocation" /\ tasks[i].pc = "loadLocations"
            => tasks[i].x.docId \notin Ids(lStore[tasks[i].x.uid])
  /\ \A u \in UIDs :
       /\ \A k \in DOMAIN workouts :
            \A d \in ever[u].w :
              Workout(d) = workouts[k] => d.docId \notin gone
       /\ \A k \in DOMAIN savedLocations :
            \A d \in ever[u].l :
              Location(d) = savedLocations[k] => d.docId \notin gone

\* C4: when a user is signed in, the transition is delivered, nothing is in
\* flight, no call of the sign-in's handler has failed and the store holds
\* the user's document, the controller holds that user's record and both
\* lists equal what the store holds for that user.
Quiet == \A i \in Slots : tasks[i].op = "idle"
\* loadWorkouts of the running controller on a collection holding S
LoadedFrom(S) ==
  IF variant = "A" THEN loadWorkouts_A(OrderByDesc(S, "date"))
                   ELSE loadWorkouts_B(OrderByDesc(S, "date"))
LoadedWorkouts(u) == LoadedFrom(wStore[u])
LoadedLocations(u) ==
  IF variant = "A" THEN loadLocations_A(OrderByDesc(lStore[u], "savedAt"))
                   ELSE loadSavedLocations_B(OrderByDesc(lStore[u], "savedAt"))
C4_SignedInPopulated ==
  (/\ Delivered /\ currentUser # NoUid /\ Quiet /\ ~loadFailed
   /\ userDocs[currentUser] # Null) =>
     /\ UserRecord # Null
     /\ UserRecordId = currentUser
     /\ workouts = LoadedWorkouts(currentUser)
     /\ savedLocations = LoadedLocations(currentUser)

\* C5: when a user is signed in, the transition is delivered and no profile
\* load of the handler is in flight, the controller holds a non-null user
\* record carrying that user's id.
ProfileLoadInFlight ==
  \E i \in Slots :
    \/ tasks[i].op = "authState" /\ tasks[i].pc = "getUserData"
    \/ tasks[i].op = "loadUserProfile"
C5_UserRecordExists ==
  (Delivered /\ currentUser # NoUid /\ ~ProfileLoadInFlight) =>
     /\ UserRecord # Null
     /\ UserRecordId = currentUser

\* C6: in the step in which an action ends on a failed call, a non-empty
\* message is put in the action's message field (for the actions without a
\* field of their own: in some message field) and nothing escapes.
FacadeOps == {"onLogin", "onRegister", "addWorkout", "deleteWorkout",
              "saveLocation", "deleteLocation", "onUpdateProfile"}
EndsFailed(i) ==
  tasks[i].op \in FacadeOps /\ tasks[i].st = "err" /\ tasks'[i].op = "idle"
C6_FailureGivesMessage ==
  [][\A i \in Slots : EndsFailed(i) =>
       /\ ~escaped'
       /\ CASE tasks[i].op = "onLogin" -> loginError' # ""
            [] tasks[i].op = "onRegister" -> registerError' # ""
            [] tasks[i].op = "onUpdateProfile" -> profileUpdateError' # ""
            [] OTHER -> \/ loginError' # loginError /\ loginError' # ""
                        \/ registerError' # registerError /\ registerError' # ""
                        \/ locationError' # locationError /\ locationError' # ""
                        \/ /\ profileUpdateError' # profileUpdateError
                           /\ profileUpdateError' # ""]_vars

\* C7: the step that ends a failed load of workouts (of locations) leaves
\* the workouts list (the saved-locations list) empty.
C7_FailedLoadEmptiesList ==
  [][\A i \in Slots :
       (tasks[i].st = "err" /\ tasks'[i].op = "idle") =>
          /\ tasks[i].pc = "loadWorkouts" => workouts' = <<>>
          /\ tasks[i].pc = "loadLocations" => savedLocations' = <<>>]_vars

\* C8: a sign-in refused for a wrong password establishes no session, and
\* the step in which onLogin handles the refusal sets the login error to
\* exactly "Incorrect password." and changes neither the login form fields
\* nor the session, the user record or the two lists.
WrongPassword == "auth/wrong-password"
C8_WrongPassword ==
  [][\A i \in Slots :
       /\ (Sent(i, "signIn") /\ tasks'[i].st = "err"
                             /\ tasks'[i].res = WrongPassword)
            => currentUser' = currentUser /\ stream' = stream
       /\ (/\ At(i, "onLogin", "login") /\ tasks[i].st = "err"
           /\ tasks[i].res = WrongPassword /\ tasks'[i].op = "idle")
            => /\ loginError' = "Incorrect password."
               /\ loginEmail' = loginEmail /\ loginPassword' = loginPassword
               /\ currentUser' = currentUser /\ stream' = stream
               /\ UserRecord' = UserRecord
               /\ workouts' = workouts
               /\ savedLocations' = savedLocations]_vars

\* C9: in the step in which a registration ends reporting success with its
\* user still signed in, the account exists with the submitted password (so
\* a login with the same credentials succeeds) and the store holds the
\* user's document with the submitted username, blanks around it aside.
Submitted(i) ==
  IF tasks[i].pc = "updateProfile"
  THEN [uid |-> tasks[i].x.target, username |-> tasks[i].x.username,
        password |-> tasks[i].x.password]
  ELSE [uid |-> tasks[i].x.uid, username |-> tasks[i].x.form.username,
        password |-> tasks[i].x.form.password]
RegisterSucceeds(i) ==
  /\ tasks[i].op = "onRegister" /\ tasks'[i].op = "idle"
  /\ tasks[i].pc \in {"updateProfile", "setDoc", "createProfile"}
  /\ tasks[i].st = "err" => tasks[i].pc = "createProfile"
  /\ currentUser = Submitted(i).uid
C9_RegisterThenLogin ==
  [][\A i \in Slots : RegisterSucceeds(i) =>
       LET r == Submitted(i)
       IN /\ r.uid \in registered' /\ password'[r.uid] = r.password
          /\ userDocs'[r.uid] # Null
          /\ userDocs'[r.uid].username \in {r.username, Trim(r.username)}
          /\ variant = "A" =>
                /\ getUserData(userDocs'[r.uid]) # Null
                /\ getUserData(userDocs'[r.uid]).username = r.username]_vars

\* C10: in the step in which the store accepts a workout added for user u,
\* loading u's workouts returns the new record exactly once, under the id
\* the store assigned and with the submitted name, type and duration; no
\* record before it is older and none after it is newer; and every workout
\* stored before is still returned.
AddAccepted(i) == Sent(i, "addW") /\ tasks'[i].st = "ok"
C10_AddThenLoad ==
  [][\A i \in Slots : AddAccepted(i) =>
       \A L \in {LoadedFrom(wStore'[tasks[i].x.uid])} :
         LET id   == tasks'[i].res
             sent == tasks[i].x.data
             old  == wStore[tasks[i].x.uid]
             at   == {k \in DOMAIN L : L[k].id = id}
         IN /\ Cardinality(at) = 1
            /\ \A k \in at :
                 /\ L[k].name = sent.name /\ L[k].type = sent.type
                 /\ L[k].duration = sent.duration
                 /\ \A j \in DOMAIN L : j < k => L[j].date >= L[k].date
                 /\ \A j \in DOMAIN L : j > k => L[j].date <= L[k].date
            /\ \A d \in old : \E k \in DOMAIN L : L[k] = Workout(d)
            /\ Len(L) = Cardinality(old) + 1]_vars
\* the reload of an accepted add has put the new record, the later one, in
\* front of an older one
C10_Witness ==
  /\ Len(workouts) = 2
  /\ workouts[1].id = 2 /\ workouts[1].name = "Run"
  /\ workouts[2].id = 1 /\ workouts[2].name = "Walk"
  /\ workouts[1].date > workouts[2].date

\* C11: every value the workouts list takes is ordered by date, newest first,
\* and every value the saved-locations list takes is ordered by savedAt,
\* newest first, as the records stand in the controller after conversion
SortedDesc(list, field) ==
  \A k \in 1..(Len(list) - 1) : list[k][field] >= list[k + 1][field]
C11_ListsSorted ==
  /\ SortedDesc(workouts, "date")
  /\ SortedDesc(savedLocations, "savedAt")
\* two saved locations of different save times are shown, and the workouts
\* were loaded
C11_Witness ==
  /\ Len(savedLocations) = 2
  /\ savedLocations[1].savedAt > savedLocations[2].savedAt
  /\ Len(workouts) >= 1
C11_WitnessWorkouts ==
  /\ Len(workouts) = 2
  /\ workouts[1].date > workouts[2].date

\* C12: a saveLocation stamps the record with the time of the save; and in
\* the step in which the store accepts it, loading the user's locations
\* returns a record under the new document whose latitude, longitude and
\* accuracy are those of the captured location and whose savedAt is the
\* time of the save.
LoadedLocationsFrom(S) ==
  IF variant = "A" THEN loadLocations_A(OrderByDesc(S, "savedAt"))
                   ELSE loadSavedLocations_B(OrderByDesc(S, "savedAt"))
SaveStarted(i) == tasks[i].op = "idle" /\ tasks'[i].op = "saveLocation"
SaveAccepted(i) == Sent(i, "addL") /\ tasks'[i].st = "ok"
C12_SaveThenLoad ==
  [][\A i \in Slots :
       /\ SaveStarted(i) => ToDate(tasks'[i].x.data.savedAt) = now
       /\ SaveAccepted(i) =>
            \A S \in {OrderByDesc(lStore'[tasks[i].x.uid], "savedAt")} :
              \A L \in {LoadedLocationsFrom(lStore'[tasks[i].x.uid])} :
                LET loc == tasks[i].x.loc
                    at  == {k \in DOMAIN S : S[k].docId = tasks'[i].res}
                IN /\ Cardinality(at) = 1
                   /\ \A k \in at :
                        /\ L[k].latitude = loc.latitude
                        /\ L[k].longitude = loc.longitude
                        /\ L[k].accuracy = loc.accuracy
                        /\ L[k].savedAt = ToDate(tasks[i].x.data.savedAt)]_vars
\* a location captured at time 0 and saved at time 1 is shown, in front of
\* the one stored before
C12_Witness ==
  /\ Len(savedLocations) = 2
  /\ savedLocations[1].latitude = 52 /\ savedLocations[1].longitude = 13
  /\ savedLocations[1].accuracy = 5
  /\ savedLocations[1].timestamp = 0 /\ savedLocations[1].savedAt = 1

\* C13: a delete of a workout or location id that the user's collection does
\* not hold leaves the store as it was; no step of the delete action changes
\* a message field; the action goes on to reload while the user is signed
\* in; and when the reload ends with the collection still as its query found
\* it, the list is what loading the stored records gives.  A delete that
\* never reaches the store (the id '') changes neither store, messages nor
\* lists.
DeleteOps == {"deleteWorkout", "deleteLocation"}
NoopServed(i) ==
  /\ \/ Sent(i, "delW") \/ Sent(i, "delL")
  /\ tasks'[i].st = "ok" /\ Removes(i) = 0
NoopReplied(i) ==
  /\ tasks[i].op \in DeleteOps /\ tasks[i].pc = "delete"
  /\ tasks[i].st = "ok" /\ tasks[i].res = 0
  /\ tasks'[i] # tasks[i]
SignedInFor(u) ==
  /\ currentUser = u
  /\ variant = "A" => HasUid(userData) /\ userData.uid = u
NoopReloaded(i) ==
  /\ tasks[i].op \in DeleteOps
  /\ tasks[i].pc \in {"loadWorkouts", "loadLocations"}
  /\ tasks[i].st = "ok" /\ tasks[i].x.wrote = 0
  /\ tasks'[i].op = "idle"
NeverSent == ops' = ops + 1 /\ tasks' = tasks
C13_AbsentDeleteNoop ==
  [][/\ \A i \in Slots :
          /\ NoopServed(i) => store' = store
          /\ (tasks[i].op \in DeleteOps \/ tasks'[i].op \in DeleteOps)
               /\ tasks'[i] # tasks[i] => messages' = messages
          /\ NoopReplied(i) /\ SignedInFor(tasks[i].x.uid)
               => tasks'[i].call \in {"queryW", "queryL"}
          /\ NoopReloaded(i) /\ SignedInFor(tasks[i].x.uid) =>
               /\ tasks[i].call = "queryW"
                    /\ tasks[i].res = OrderByDesc(wStore[tasks[i].x.uid], "date")
                    => workouts' = LoadedFrom(wStore'[tasks[i].x.uid])
               /\ tasks[i].call = "queryL"
                    /\ tasks[i].res = OrderByDesc(lStore[tasks[i].x.uid], "savedAt")
                    => savedLocations' = LoadedLocationsFrom(lStore'[tasks[i].x.uid])
     /\ NeverSent => /\ store' = store /\ messages' = messages
                     /\ lists' = lists]_vars
\* the reload of a delete that removed nothing has been answered, for a list
\* that still shows the id
C13_Witness ==
  \E i \in Slots :
    /\ tasks[i].op \in DeleteOps
    /\ tasks[i].pc \in {"loadWorkouts", "loadLocations"}
    /\ tasks[i].st = "ok" /\ tasks[i].x.wrote = 0
    /\ currentUser = tasks[i].x.uid
    /\ tasks[i].x.docId \in Shown(workouts) \cup Shown(savedLocations)

\* C14: when the identity provider accepts the display name of a profile
\* update, that user's session profile carries the submitted username; and
\* when the store accepts the update's write (no load of the session
\* handler having failed), the user's document carries
\* the submitted username, keeps every other field (id, email, creation
\* time, premium flag), and no other user's document changes.
NameAccepted(i) ==
  /\ tasks[i].op = "onUpdateProfile" /\ Sent(i, "updateProfile")
  /\ tasks'[i].st = "ok"
WriteAccepted(i) ==
  /\ tasks[i].op = "onUpdateProfile"
  /\ Sent(i, "setDocMerge") \/ Sent(i, "updateDoc")
  /\ tasks'[i].st = "ok"
NewName(i) ==
  IF variant = "A" THEN tasks[i].x.doc.username
                   ELSE tasks[i].x.sent.displayName
C14_UpdateMerges ==
  [][\A i \in Slots :
       /\ NameAccepted(i) =>
            /\ displayName'[tasks[i].x.target] = tasks[i].x.displayName
            /\ \A v \in UIDs \ {tasks[i].x.target} :
                 displayName'[v] = displayName[v]
       /\ WriteAccepted(i) /\ ~loadFailed =>
            LET u == tasks[i].x.uid
            IN /\ userDocs'[u].username = NewName(i)
               /\ userDocs[u] # Null =>
                    /\ DOMAIN userDocs'[u] = DOMAIN userDocs[u]
                    /\ \A f \in DOMAIN userDocs[u] \ {"username", "displayName"} :
                         userDocs'[u][f] = userDocs[u][f]
               /\ \A v \in UIDs \ {u} : userDocs'[v] = userDocs[v]]_vars

\* C15: every getCurrentLocation finishes: whenever locationLoading is true
\* it becomes false again, also when the device never produces a position.
C15_LocationFinishes == locationLoading ~> ~locationLoading

\* C16: a sign-out whose teardown succeeded sets the active section to
\* 'dashboard'; a teardown that fails leaves the session as it was, and the
\* sign-out that handles the failure lets no error escape and changes no
\* message field, list, user record, premium flag or section.
LogoutHandled(i, st) ==
  /\ tasks[i].op = "signOut" /\ tasks[i].st = st
  /\ tasks'[i].op = "idle"
C16_LogoutNeverSurfaces ==
  [][\A i \in Slots :
       /\ LogoutHandled(i, "ok") => activeSection' = "dashboard"
       /\ Sent(i, "signOut") /\ tasks'[i].st = "err" => provider' = provider
       /\ LogoutHandled(i, "err") =>
            /\ ~escaped'
            /\ messages' = messages
            /\ provider' = provider
            /\ lists' = lists /\ profile' = profile
            /\ isPremium' = isPremium
            /\ activeSection' = activeSection]_vars
\* a failed teardown is about to be handled, away from the dashboard, with
\* the user signed in and the workouts loaded
C16_Witness ==
  \E i \in Slots :
    /\ tasks[i].op = "signOut" /\ tasks[i].st = "err"
    /\ currentUser = "u1" /\ workouts # <<>>
    /\ activeSection = "profile"

\* C17: the controller's premium flag is true only while a user is signed in
\* whose stored document has its premium flag set.
C17_PremiumOnlyIfStored ==
  isPremium =>
    /\ currentUser # NoUid
    /\ userDocs[currentUser] # Null
    /\ userDocs[currentUser].isPremium

\* C18: when a user is signed in, the transition is delivered and no call is
\* in flight, in a run in which no call was rejected, the workouts list is
\* what loading the user's stored workouts gives and the saved-locations
\* list is what loading the user's stored locations gives.
C18_QuiescentConsistent ==
  (Delivered /\ currentUser # NoUid /\ Quiet) =>
    /\ workouts = LoadedWorkouts(currentUser)
    /\ savedLocations = LoadedLocations(currentUser)

\* C19: once every session transition is delivered, a user record that is
\* not null carries the id of the signed-in user, and the record is null
\* when nobody is signed in; and every store write an action issues is for
\* the user who is signed in.
WriteCalls == {"addW", "addL", "delW", "delL", "setDoc", "setDocMerge",
               "updateDoc"}
RecordOf(rec, cu) ==
  rec # Null =>
    /\ cu # NoUid
    /\ cu = (IF variant = "A" THEN rec.uid ELSE rec.id)
C19_RecordIsSignedInUser ==
  [][/\ stream' = <<>> =>
          RecordOf(IF variant = "A" THEN userData' ELSE userProfile', currentUser')
     /\ \A i \in Slots :
          (/\ tasks'[i] # tasks[i]
           /\ tasks'[i].st = "sent" /\ tasks'[i].call \in WriteCalls)
            => tasks'[i].x.uid = currentUser]_vars

\* C20: in the step in which a profile update reports 'Profile updated
\* successfully!', every session transition being delivered, a user is
\* signed in and that user's stored document
\* holds the username the update submitted.
SuccessText == "Profile updated successfully!"
ReportsSuccess(i) ==
  /\ tasks[i].op = "onUpdateProfile" /\ tasks'[i] # tasks[i]
  /\ tasks[i].pc \in {"updateProfile", "updateDoc", "getUserData"}
  /\ profileUpdateSuccess' = SuccessText
SubmittedName(i) ==
  IF variant = "A" THEN tasks[i].x.sent.username
  ELSE IF tasks[i].pc = "updateDoc" THEN tasks[i].x.sent.displayName
  ELSE tasks[i].x.displayName
C20_SuccessOnlyIfUpdated ==
  [][\A i \in Slots : ReportsSuccess(i) /\ Delivered =>
       /\ currentUser # NoUid
       /\ userDocs[currentUser] # Null
       /\ userDocs[currentUser].username = SubmittedName(i)]_vars

====
